---- MODULE Spec2Model ----
(***************************************************************************)
(* Model of the AWS auto-shutdown lambda (src/terraform/lambda_function.py) *)
(* as a state machine: one process serving a sequence of invocations of     *)
(* lambda_handler, each of which loads the protection rules, passes the     *)
(* scheduling gate, applies the payload overrides, scans every region's     *)
(* provider types, scans the buckets and builds the response.               *)
(*                                                                          *)
(* Strings that the code inspects character by character (resource names,   *)
(* patterns, tag values) are sequences of one-character strings; strings    *)
(* that it only compares for equality (ids, regions, tag keys, instance     *)
(* types) are TLA+ strings.  Time is in seconds.                            *)
(***************************************************************************)
EXTENDS Integers, Sequences, FiniteSets, TLC

(***************************************************************************)
(* Bounds of the model.                                                     *)
(***************************************************************************)
\* invocations served by one process
MaxInvocations == 2
\* external calls that fail during one invocation
MaxFailures == 1

(***************************************************************************)
(* Program constants.                                                       *)
(***************************************************************************)
SecondsPerDay == 86400
SecondsPerHour == 3600
\* MAX_AGE_DAYS = int(os.environ.get('MAX_AGE_DAYS', '3'))
DefaultMaxAgeDays == 3
\* business hours 9 AM - 5 PM UTC
BusinessStartHour == 9
BusinessEndHour == 17
\* conservative mode: 10 PM UTC only
ConservativeHour == 22
\* list_objects_v2(..., MaxKeys=100) and the small-bucket limit
S3MaxKeys == 100
S3SmallBucketLimit == 100
\* search domain without a creation time: now minus 30 days
EsFallbackAgeDays == 30

(***************************************************************************)
(* Character strings.                                                       *)
(***************************************************************************)
UpperCase == <<"A","B","C","D","E","F","G","H","I","J","K","L","M",
               "N","O","P","Q","R","S","T","U","V","W","X","Y","Z">>
LowerCase == <<"a","b","c","d","e","f","g","h","i","j","k","l","m",
               "n","o","p","q","r","s","t","u","v","w","x","y","z">>

\* str.lower() on one character
ToLower == [c \in {UpperCase[i] : i \in 1..Len(UpperCase)} |->
               LowerCase[CHOOSE i \in 1..Len(UpperCase) : UpperCase[i] = c]]
LowerChar(c) == IF c \in DOMAIN ToLower THEN ToLower[c] ELSE c

\* str.lower()
Lower(s) == [i \in 1..Len(s) |-> LowerChar(s[i])]

\* needle in haystack (substring test of Python's "in" on strings)
Contains(haystack, needle) ==
    \E i \in 0..(Len(haystack) - Len(needle)) :
        \A k \in 1..Len(needle) : haystack[i + k] = needle[k]

\* pattern.replace('*', '.*')
RECURSIVE ReplaceStar(_)
ReplaceStar(p) ==
    IF p = <<>> THEN <<>>
    ELSE (IF Head(p) = "*" THEN <<".", "*">> ELSE <<Head(p)>>) \o ReplaceStar(Tail(p))

(***************************************************************************)
(* Regular expressions, the part of Python's re that the rules use:         *)
(* literal characters, '.', a postfix '*', '^' and a final '$', matched     *)
(* with re.IGNORECASE.  MatchHere(re, i, s, j): the pattern from position   *)
(* i matches a prefix of s[j..].                                            *)
(***************************************************************************)
AtomMatches(p, c) == IF p = "." THEN c # "\n" ELSE LowerChar(p) = LowerChar(c)

RECURSIVE MatchHere(_, _, _, _)
MatchHere(re, i, s, j) ==
    IF i > Len(re) THEN TRUE
    ELSE IF re[i] = "^" THEN j = 1 /\ MatchHere(re, i + 1, s, j)
    ELSE IF re[i] = "$" /\ i = Len(re)
         THEN j = Len(s) + 1 \/ (j = Len(s) /\ s[j] = "\n")
    ELSE IF i < Len(re) /\ re[i + 1] = "*"
         THEN \E k \in j..(Len(s) + 1) :
                  /\ \A m \in j..(k - 1) : AtomMatches(re[i], s[m])
                  /\ MatchHere(re, i + 2, s, k)
    ELSE j <= Len(s) /\ AtomMatches(re[i], s[j]) /\ MatchHere(re, i + 1, s, j + 1)

\* re.match(pattern, value, re.IGNORECASE)
ReMatch(re, s) == MatchHere(re, 1, s, 1)
\* re.search(pattern, value, re.IGNORECASE)
ReSearch(re, s) == \E j \in 1..(Len(s) + 1) : MatchHere(re, 1, s, j)

\* re raises re.error when it compiles the pattern: a '*' with nothing to
\* repeat or after another '*', a '(' that is not closed, a '[' that is not
\* closed.  (The patterns of the model have no closed group and no set.)
ReMalformed(re) ==
    \/ \E i \in 1..Len(re) :
           /\ re[i] = "*"
           /\ (i = 1 \/ re[i - 1] \in {"^", "*", "("})
    \/ \E i \in 1..Len(re) :
           /\ re[i] = "("
           /\ \A k \in (i + 1)..Len(re) : re[k] # ")"
    \/ \E i \in 1..Len(re) :
           /\ re[i] = "["
           /\ \A k \in (i + 2)..Len(re) : re[k] # "]"

\* the regular expression match_pattern makes of a pattern with a '*'
WildcardRegex(pattern) == <<"^">> \o ReplaceStar(pattern) \o <<"$">>
HasStar(pattern) == \E i \in 1..Len(pattern) : pattern[i] = "*"

\* match_pattern(value, pattern) raises re.error: nothing in it catches the
\* error of re.match
match_pattern_raises(value, pattern) ==
    /\ value # <<>> /\ pattern # <<>>
    /\ HasStar(pattern)
    /\ ReMalformed(WildcardRegex(pattern))

\* match_pattern(value, pattern), where it returns
match_pattern(value, pattern) ==
    IF value = <<>> \/ pattern = <<>> THEN FALSE
    ELSE IF HasStar(pattern)
         THEN /\ ~ReMalformed(WildcardRegex(pattern))
              /\ ReMatch(WildcardRegex(pattern), value)
    ELSE Lower(value) = Lower(pattern)

\* match_regex_patterns(value, patterns): a pattern that raises re.error is
\* logged and passed over
match_regex_patterns(value, patterns) ==
    \E i \in 1..Len(patterns) :
        ~ReMalformed(patterns[i]) /\ ReSearch(patterns[i], value)

\* check_tag_protection(tags, protected_tags): tags is a function from tag
\* keys to values, protected_tags a sequence of <<key, values>> pairs
check_tag_protection(tags, protected_tags) ==
    IF DOMAIN tags = {} \/ protected_tags = <<>> THEN FALSE
    ELSE \E i \in 1..Len(protected_tags) :
            /\ protected_tags[i][1] \in DOMAIN tags
            /\ \E k \in 1..Len(protected_tags[i][2]) :
                   Lower(tags[protected_tags[i][1]]) = Lower(protected_tags[i][2][k])

\* is_resource_excluded(resource_name, exclusion_patterns)
is_resource_excluded(resource_name, exclusion_patterns) ==
    IF resource_name = <<>> THEN FALSE
    ELSE \E i \in 1..Len(exclusion_patterns) :
            /\ exclusion_patterns[i] # <<>>
            /\ Contains(Lower(resource_name), Lower(exclusion_patterns[i]))

(***************************************************************************)
(* Configuration.                                                           *)
(***************************************************************************)
S3_BUCKET_EXCLUSIONS ==
    << <<"t","e","r","r","a","f","o","r","m","-","s","t","a","t","e">>,
       <<"c","l","o","u","d","t","r","a","i","l">>,
       <<"l","o","g","s">>,
       <<"b","a","c","k","u","p">> >>
ELB_NAME_EXCLUSIONS ==
    << <<"p","r","o","d","u","c","t","i","o","n">>,
       <<"c","r","i","t","i","c","a","l">> >>
ES_DOMAIN_EXCLUSIONS ==
    << <<"p","r","o","d","u","c","t","i","o","n">>,
       <<"l","o","g","s">> >>

EnvironmentTag == <<"Environment", << <<"p","r","o","d","u","c","t","i","o","n">>,
                                      <<"p","r","o","d">> >> >>
ProtectedTag == <<"Protected", << <<"t","r","u","e">>, <<"y","e","s">>, <<"1">> >> >>
ManagedByTag == <<"ManagedBy", << <<"t","e","r","r","a","f","o","r","m">>,
                                  <<"c","l","o","u","d","f","o","r","m","a","t","i","o","n">> >> >>

\* DEFAULT_PROTECTION_RULES; a key the dictionary lacks reads as the empty
\* list, as rules.get(key, []) does
DEFAULT_PROTECTION_RULES ==
    [ec2 |->
        [whitelist_patterns |-> <<>>,
         blacklist_patterns |->
            << <<"*","p","r","o","d","u","c","t","i","o","n","*">>,
               <<"*","c","r","i","t","i","c","a","l","*">>,
               <<"*","d","o","-","n","o","t","-","d","e","l","e","t","e","*">> >>,
         protected_tags |-> <<EnvironmentTag, ProtectedTag, ManagedByTag>>,
         protected_instance_types |-> <<"t2.micro", "t3.micro">>,
         regex_patterns |-> <<>>],
     rds |->
        [whitelist_patterns |-> <<>>,
         blacklist_patterns |->
            << <<"*","p","r","o","d","u","c","t","i","o","n","*">>,
               <<"*","m","a","s","t","e","r","*">>,
               <<"*","p","r","i","m","a","r","y","*">> >>,
         protected_tags |-> <<EnvironmentTag, ProtectedTag>>,
         protected_instance_types |-> <<>>,
         regex_patterns |-> <<>>],
     s3 |->
        [whitelist_patterns |-> <<>>,
         blacklist_patterns |->
            << <<"*","t","e","r","r","a","f","o","r","m","-","s","t","a","t","e","*">>,
               <<"*","c","l","o","u","d","t","r","a","i","l","*">>,
               <<"*","l","o","g","s","*">>,
               <<"*","b","a","c","k","u","p","*">>,
               <<"*","c","o","n","f","i","g","*">> >>,
         protected_tags |-> <<EnvironmentTag, ProtectedTag>>,
         protected_instance_types |-> <<>>,
         regex_patterns |->
            << <<"^","a","w","s","-">>,
               <<"-","p","r","o","d","-">>,
               <<"-","p","r","o","d","u","c","t","i","o","n","-">> >>],
     elb |->
        [whitelist_patterns |-> <<>>,
         blacklist_patterns |->
            << <<"*","p","r","o","d","u","c","t","i","o","n","*">>,
               <<"*","c","r","i","t","i","c","a","l","*">>,
               <<"*","p","u","b","l","i","c","*">> >>,
         protected_tags |-> <<EnvironmentTag>>,
         protected_instance_types |-> <<>>,
         regex_patterns |-> <<>>],
     elasticsearch |->
        [whitelist_patterns |-> <<>>,
         blacklist_patterns |->
            << <<"*","p","r","o","d","u","c","t","i","o","n","*">>,
               <<"*","l","o","g","s","*">>,
               <<"*","a","n","a","l","y","t","i","c","s","*">> >>,
         protected_tags |-> <<EnvironmentTag>>,
         protected_instance_types |-> <<>>,
         regex_patterns |-> <<>>]]

\* is_resource_protected raises re.error: a whitelist or blacklist pattern
\* raises in match_pattern before any pattern has matched
is_resource_protected_raises(cfg, resource_type, resource_name) ==
    /\ cfg.enabled
    /\ resource_type \in DOMAIN cfg.rules
    /\ LET patterns == cfg.rules[resource_type].whitelist_patterns
                        \o cfg.rules[resource_type].blacklist_patterns
       IN \E i \in 1..Len(patterns) :
             /\ match_pattern_raises(resource_name, patterns[i])
             /\ \A k \in 1..(i - 1) : ~match_pattern(resource_name, patterns[k])

\* is_resource_protected(resource_type, resource_name, resource_id, tags,
\* additional_checks), where it returns, under the protection configuration cfg; instance_type
\* is "" when additional_checks carries none
is_resource_protected(cfg, resource_type, resource_name, tags, instance_type) ==
    IF ~cfg.enabled THEN FALSE
    ELSE IF resource_type \notin DOMAIN cfg.rules THEN FALSE
    ELSE LET rules == cfg.rules[resource_type] IN
         \/ \E i \in 1..Len(rules.whitelist_patterns) :
                match_pattern(resource_name, rules.whitelist_patterns[i])
         \/ \E i \in 1..Len(rules.blacklist_patterns) :
                match_pattern(resource_name, rules.blacklist_patterns[i])
         \/ match_regex_patterns(resource_name, rules.regex_patterns)
         \/ (DOMAIN tags # {} /\ check_tag_protection(tags, rules.protected_tags))
         \/ /\ resource_type = "ec2"
            /\ instance_type # ""
            /\ \E i \in 1..Len(rules.protected_instance_types) :
                   rules.protected_instance_types[i] = instance_type

\* the (is_protected, reason) pairs is_resource_protected returns; a reason
\* is the text before the detail, then the detail
Unprotected == [protected |-> FALSE, reason |-> <<>>]
Protected(reason) == [protected |-> TRUE, reason |-> reason]

\* the index of the first pattern of the list that matches the name, 0
\* when none does
FirstMatch(resource_name, patterns) ==
    IF \E i \in 1..Len(patterns) : match_pattern(resource_name, patterns[i])
    THEN CHOOSE i \in 1..Len(patterns) :
            /\ match_pattern(resource_name, patterns[i])
            /\ \A k \in 1..(i - 1) : ~match_pattern(resource_name, patterns[k])
    ELSE 0

\* check_tag_protection: the index of the first protected tag whose key the
\* resource carries with one of the protected values, 0 when there is none
TagProtects(tags, protected_tag) ==
    /\ protected_tag[1] \in DOMAIN tags
    /\ \E k \in 1..Len(protected_tag[2]) :
           Lower(tags[protected_tag[1]]) = Lower(protected_tag[2][k])
FirstProtectedTag(tags, protected_tags) ==
    IF \E i \in 1..Len(protected_tags) : TagProtects(tags, protected_tags[i])
    THEN CHOOSE i \in 1..Len(protected_tags) :
            /\ TagProtects(tags, protected_tags[i])
            /\ \A k \in 1..(i - 1) : ~TagProtects(tags, protected_tags[k])
    ELSE 0

\* is_resource_protected with the blacklist checked before the whitelist
protection_decision_blacklist_first(cfg, resource_type, resource_name, tags, instance_type) ==
    IF ~cfg.enabled THEN Unprotected
    ELSE IF resource_type \notin DOMAIN cfg.rules THEN Unprotected
    ELSE LET rules == cfg.rules[resource_type]
             whitelist == rules.whitelist_patterns
             blacklist == rules.blacklist_patterns
             tag == FirstProtectedTag(tags, rules.protected_tags)
         IN IF FirstMatch(resource_name, blacklist) > 0
            THEN Protected(<<"Blacklisted by pattern",
                             blacklist[FirstMatch(resource_name, blacklist)]>>)
            ELSE IF FirstMatch(resource_name, whitelist) > 0
            THEN Protected(<<"Whitelisted by pattern",
                             whitelist[FirstMatch(resource_name, whitelist)]>>)
            ELSE IF match_regex_patterns(resource_name, rules.regex_patterns)
            THEN Protected(<<"Protected by regex pattern">>)
            ELSE IF DOMAIN tags # {} /\ tag > 0
            THEN Protected(<<"Protected by tag", rules.protected_tags[tag][1],
                             tags[rules.protected_tags[tag][1]]>>)
            ELSE IF /\ resource_type = "ec2"
                    /\ instance_type # ""
                    /\ \E i \in 1..Len(rules.protected_instance_types) :
                           rules.protected_instance_types[i] = instance_type
            THEN Protected(<<"Protected instance type", instance_type>>)
            ELSE Unprotected

\* is_resource_protected(...) with the reason it returns, where it returns
protection_decision(cfg, resource_type, resource_name, tags, instance_type) ==
    IF ~cfg.enabled THEN Unprotected
    ELSE IF resource_type \notin DOMAIN cfg.rules THEN Unprotected
    ELSE LET rules == cfg.rules[resource_type]
             whitelist == rules.whitelist_patterns
             blacklist == rules.blacklist_patterns
             tag == FirstProtectedTag(tags, rules.protected_tags)
         IN IF FirstMatch(resource_name, whitelist) > 0
            THEN Protected(<<"Whitelisted by pattern",
                             whitelist[FirstMatch(resource_name, whitelist)]>>)
            ELSE IF FirstMatch(resource_name, blacklist) > 0
            THEN Protected(<<"Blacklisted by pattern",
                             blacklist[FirstMatch(resource_name, blacklist)]>>)
            ELSE IF match_regex_patterns(resource_name, rules.regex_patterns)
            THEN Protected(<<"Protected by regex pattern">>)
            ELSE IF DOMAIN tags # {} /\ tag > 0
            THEN Protected(<<"Protected by tag", rules.protected_tags[tag][1],
                             tags[rules.protected_tags[tag][1]]>>)
            ELSE IF /\ resource_type = "ec2"
                    /\ instance_type # ""
                    /\ \E i \in 1..Len(rules.protected_instance_types) :
                           rules.protected_instance_types[i] = instance_type
            THEN Protected(<<"Protected instance type", instance_type>>)
            ELSE Unprotected

\* get_age_days with the elapsed days rounded up instead of down
get_age_days_rounding_up(now, launch_time) ==
    (now - launch_time + SecondsPerDay - 1) \div SecondsPerDay

\* get_age_days(launch_time): timedelta.days of now - launch_time, the floor
\* of the elapsed seconds over the seconds of a day
get_age_days(now, launch_time) == (now - launch_time) \div SecondsPerDay


(***************************************************************************)
(* The inventories the provider can report.  Every resource has a short id  *)
(* by which the model names it in calls and errors; name is the string the  *)
(* code matches against the rules; ago is the time since its creation, in   *)
(* seconds, at the moment of the invocation.                                *)
(***************************************************************************)
Ago(d, h, s) == d * SecondsPerDay + h * SecondsPerHour + s

NoTags == [k \in {} |-> <<>>]
NameTag(n) == [k \in {"Name"} |-> n]

\* describe_instances (running instances)
Ec2Old    == [id |-> "i-old", InstanceType |-> "m5.large", ago |-> Ago(3, 0, 1),
              tags |-> NameTag(<<"w","e","b">>)]
Ec2Young  == [id |-> "i-young", InstanceType |-> "c5.xlarge", ago |-> Ago(2, 23, 0),
              tags |-> NameTag(<<"w","e","b","2">>)]
Ec2Tagged == [id |-> "i-tagged", InstanceType |-> "c5.large", ago |-> Ago(10, 0, 0),
              tags |-> [k \in {"Name", "Environment"} |->
                          IF k = "Name" THEN <<"a","p","i">>
                          ELSE <<"P","r","o","d","u","c","t","i","o","n">>]]
Ec2Named  == [id |-> "i-named", InstanceType |-> "m5.xlarge", ago |-> Ago(6, 0, 0),
              tags |-> NameTag(<<"P","r","o","d","u","c","t","i","o","n","-","D","B">>)]
Ec2Micro  == [id |-> "i-micro", InstanceType |-> "t2.micro", ago |-> Ago(5, 0, 0),
              tags |-> NoTags]
Ec2Aged   == [id |-> "i-aged", InstanceType |-> "x1.32xlarge", ago |-> Ago(5, 12, 0),
              tags |-> NoTags]

\* describe_db_instances
RdsOld     == [id |-> "db-old", name |-> <<"o","r","d","e","r","s">>,
               DBInstanceStatus |-> "available", DBInstanceClass |-> "db.m5.large",
               ago |-> Ago(4, 0, 0), tags |-> NoTags]
RdsMaster  == [id |-> "db-master", name |-> <<"m","a","s","t","e","r","-","d","b">>,
               DBInstanceStatus |-> "available", DBInstanceClass |-> "db.m5.xlarge",
               ago |-> Ago(9, 0, 0), tags |-> NoTags]
RdsTagged  == [id |-> "db-tagged", name |-> <<"u","s","e","r","s">>,
               DBInstanceStatus |-> "available", DBInstanceClass |-> "db.t3.small",
               ago |-> Ago(7, 0, 0),
               tags |-> [k \in {"Protected"} |-> <<"Y","e","s">>]]
RdsStopped == [id |-> "db-stopped", name |-> <<"b","a","t","c","h">>,
               DBInstanceStatus |-> "stopped", DBInstanceClass |-> "db.t2.micro",
               ago |-> Ago(8, 0, 0), tags |-> NoTags]
RdsYoung   == [id |-> "db-young", name |-> <<"s","t","a","g","i","n","g">>,
               DBInstanceStatus |-> "available", DBInstanceClass |-> "db.t2.small",
               ago |-> Ago(1, 0, 0), tags |-> NoTags]

\* list_clusters / list_services / describe_services
SvcOld   == [id |-> "svc-old", name |-> <<"c","h","e","c","k","o","u","t">>,
             desiredCount |-> 2, ago |-> Ago(6, 0, 0)]
SvcZero  == [id |-> "svc-zero", name |-> <<"w","o","r","k","e","r">>,
             desiredCount |-> 0, ago |-> Ago(9, 0, 0)]
SvcYoung == [id |-> "svc-young", name |-> <<"a","p","i">>,
             desiredCount |-> 1, ago |-> Ago(1, 0, 0)]
SvcAged  == [id |-> "svc-aged", name |-> <<"b","a","t","c","h">>,
             desiredCount |-> 1, ago |-> Ago(4, 0, 0)]
ClusterMain  == [id |-> "cl-main", services |-> <<SvcOld, SvcZero>>]
ClusterEmpty == [id |-> "cl-empty", services |-> <<>>]
ClusterJobs  == [id |-> "cl-jobs", services |-> <<SvcYoung, SvcAged>>]

\* describe_nat_gateways (available gateways)
NatOld   == [id |-> "nat-old", ago |-> Ago(7, 0, 0)]
NatYoung == [id |-> "nat-young", ago |-> Ago(0, 1, 0)]

\* elbv2 describe_load_balancers
AlbOld      == [id |-> "alb-old", name |-> <<"a","p","p","-","l","b">>,
                ago |-> Ago(4, 0, 0)]
AlbExcluded == [id |-> "alb-excluded",
                name |-> <<"p","r","o","d","u","c","t","i","o","n","-","a","l","b">>,
                ago |-> Ago(4, 0, 0)]
AlbPublic   == [id |-> "alb-public", name |-> <<"p","u","b","l","i","c","-","a","p","i">>,
                ago |-> Ago(5, 0, 0)]
\* elb describe_load_balancers
ClassicOld   == [id |-> "clb-old", name |-> <<"l","e","g","a","c","y","-","l","b">>,
                 ago |-> Ago(8, 0, 0)]
ClassicYoung == [id |-> "clb-young", name |-> <<"w","e","b">>, ago |-> Ago(0, 5, 0)]

\* list_domain_names / describe_domain; hasCreated: the status carries a
\* creation time
EsOld        == [id |-> "es-old", name |-> <<"s","e","a","r","c","h">>,
                 hasCreated |-> TRUE, ago |-> Ago(5, 0, 0), Processing |-> FALSE]
EsProcessing == [id |-> "es-processing", name |-> <<"r","e","i","n","d","e","x">>,
                 hasCreated |-> TRUE, ago |-> Ago(9, 0, 0), Processing |-> TRUE]
EsNoCreated  == [id |-> "es-nocreated", name |-> <<"m","e","t","r","i","c","s">>,
                 hasCreated |-> FALSE, ago |-> 0, Processing |-> FALSE]
EsAnalytics  == [id |-> "es-analytics",
                 name |-> <<"a","n","a","l","y","t","i","c","s","-","d","e","v">>,
                 hasCreated |-> TRUE, ago |-> Ago(6, 0, 0), Processing |-> FALSE]
EsLogs       == [id |-> "es-logs", name |-> <<"a","p","p","-","l","o","g","s">>,
                 hasCreated |-> TRUE, ago |-> Ago(6, 0, 0), Processing |-> FALSE]

\* list_buckets; objects: the number of objects the bucket holds
BucketSmall  == [id |-> "b-small", name |-> <<"a","s","s","e","t","s">>,
                 ago |-> Ago(6, 0, 0), objects |-> 50]
BucketBig    == [id |-> "b-big", name |-> <<"m","e","d","i","a">>,
                 ago |-> Ago(6, 0, 0), objects |-> 150]
BucketEmpty  == [id |-> "b-empty", name |-> <<"s","c","r","a","t","c","h">>,
                 ago |-> Ago(3, 0, 1), objects |-> 0]
BucketEdge   == [id |-> "b-edge", name |-> <<"r","e","p","o","r","t","s">>,
                 ago |-> Ago(4, 0, 0), objects |-> 100]
BucketAlmost == [id |-> "b-almost", name |-> <<"w","e","b">>,
                 ago |-> Ago(4, 0, 0), objects |-> 99]
BucketConfig == [id |-> "b-config", name |-> <<"a","p","p","-","c","o","n","f","i","g">>,
                 ago |-> Ago(5, 0, 0), objects |-> 1]
BucketBackup == [id |-> "b-backup", name |-> <<"d","b","-","b","a","c","k","u","p">>,
                 ago |-> Ago(5, 0, 0), objects |-> 3]
BucketYoung  == [id |-> "b-young", name |-> <<"s","t","a","g","i","n","g">>,
                 ago |-> Ago(2, 23, 0), objects |-> 2]

InventoryA ==
    [ec2 |-> <<Ec2Young, Ec2Old, Ec2Tagged>>,
     rds |-> <<RdsOld, RdsStopped>>,
     ecs |-> <<ClusterMain>>,
     nat |-> <<NatOld>>,
     elbv2 |-> <<AlbExcluded, AlbOld>>,
     elb |-> <<ClassicOld>>,
     es |-> <<EsProcessing, EsOld>>]
InventoryB ==
    [ec2 |-> <<Ec2Micro, Ec2Aged, Ec2Named>>,
     rds |-> <<RdsMaster, RdsTagged, RdsYoung>>,
     ecs |-> <<ClusterEmpty, ClusterJobs>>,
     nat |-> <<NatYoung>>,
     elbv2 |-> <<AlbPublic>>,
     elb |-> <<ClassicYoung>>,
     es |-> <<EsLogs, EsNoCreated, EsAnalytics>>]

\* REGIONS = os.environ.get('REGIONS', ...).split(','), for a deployment
\* configured with two regions
REGIONS == <<"us-east-1", "us-west-2">>

Worlds ==
    {[regions |-> [r \in {"us-east-1", "us-west-2"} |->
                      IF r = "us-east-1" THEN InventoryA ELSE InventoryB],
      buckets |-> <<BucketSmall, BucketBig, BucketConfig>>],
     [regions |-> [r \in {"us-east-1", "us-west-2"} |->
                      IF r = "us-east-1" THEN InventoryB ELSE InventoryA],
      buckets |-> <<BucketBackup, BucketEdge, BucketEmpty, BucketAlmost, BucketYoung>>]}


(***************************************************************************)
(* State.                                                                   *)
(***************************************************************************)
VARIABLES
    env,                \* the environment the module read when it was imported
    MAX_AGE_DAYS,       \* module global
    DRY_RUN,            \* module global
    PROTECTION_CONFIG,  \* module global
    invocations,        \* invocations started by this process
    world,              \* the inventory the provider reports to this invocation
    now,                \* the clock of this invocation
    event,              \* the payload of this invocation
    pc,                 \* position of lambda_handler
    ri,                 \* index in REGIONS of the region being processed
    summary,            \* lambda_handler's summary
    calls,              \* mutating calls issued by this invocation, in order
    scanned,            \* <<region, type>> units whose listing was requested
    failed,             \* external calls that failed in this invocation
    response,           \* what the last invocation returned
    PERFORMANCE_METRICS, \* module global
    notification,       \* what this invocation handed to sns publish
    store               \* the object at s3_config_bucket/s3_config_key, parsed

vars == <<env, MAX_AGE_DAYS, DRY_RUN, PROTECTION_CONFIG, invocations, world, now,
          event, pc, ri, summary, calls, scanned, failed, response,
          PERFORMANCE_METRICS, notification, store>>

\* HIGH_VALUE_THRESHOLD = float(os.environ.get('HIGH_VALUE_THRESHOLD', '100')),
\* in cents
HIGH_VALUE_THRESHOLD == 10000
\* a configured SNS_TOPIC_ARN
TopicArn == "arn:aws:sns:us-east-1:shutdown-reports"

\* the environments of the check: DRY_RUN, PROTECTION_ENABLED and the two
\* scheduling variables vary; the notification topic is configured
Envs ==
    {[DRY_RUN |-> d, PROTECTION_ENABLED |-> p,
      CONFIG_SOURCE |-> "env", CONFIG_S3_BUCKET |-> "",
      HIGH_VALUE_THRESHOLD |-> HIGH_VALUE_THRESHOLD, SNS_TOPIC_ARN |-> TopicArn,
      BUSINESS_HOURS_ONLY |-> s[1], SCHEDULING_MODE |-> s[2]] :
        d \in BOOLEAN, p \in BOOLEAN,
        s \in {<<FALSE, "conservative">>, <<TRUE, "cost_optimized">>}}

\* payloads: any subset of the two recognised keys
NoPayload == [k \in {} |-> 0]
Events == {NoPayload, [max_age_days |-> 2, dry_run |-> TRUE], [dry_run |-> FALSE]}

\* clock values of an invocation: 10:00 and 22:00 UTC of one day
Clocks == {Ago(20, 10, 0), Ago(20, 22, 0)}
HourOf(t) == (t \div SecondsPerHour) % 24

NoWorld ==
    [regions |-> [r \in {"us-east-1", "us-west-2"} |->
                   [ec2 |-> <<>>, rds |-> <<>>, ecs |-> <<>>, nat |-> <<>>,
                    elbv2 |-> <<>>, elb |-> <<>>, es |-> <<>>]],
     buckets |-> <<>>]

\* the summary dictionary lambda_handler builds
EmptySummary ==
    [correlation_id |-> 0, max_age_days |-> 0, dry_run |-> FALSE,
     ec2_instances |-> <<>>, rds_instances |-> <<>>, ecs_services |-> <<>>,
     nat_gateways |-> <<>>, load_balancers |-> <<>>, s3_buckets |-> <<>>,
     elasticsearch_domains |-> <<>>, errors |-> <<>>]

NoResponse == [statusCode |-> 0]

\* PERFORMANCE_METRICS as the module creates it.  A duration, a count or a
\* latency sample is kept by its provenance: region_times maps a region to
\* the invocation that measured it, resource_counts maps a resource type to
\* the invocations whose scans are summed in its count, api_call_latencies
\* is the set of invocations that appended samples to the list.
NoMetrics ==
    [start_time |-> 0,
     region_times |-> [k \in {} |-> 0],
     resource_counts |-> [k \in {} |-> {}],
     api_call_latencies |-> {}]

NoNotification == [sent |-> FALSE]

\* a configuration object without an entry
NoDocument == [k \in {} |-> 0]

Init ==
    /\ env \in Envs
    /\ MAX_AGE_DAYS = DefaultMaxAgeDays
    /\ DRY_RUN = env.DRY_RUN
    /\ PROTECTION_CONFIG = [enabled |-> env.PROTECTION_ENABLED,
                            config_source |-> env.CONFIG_SOURCE,
                            s3_config_bucket |-> env.CONFIG_S3_BUCKET,
                            rules |-> [k \in {} |-> 0]]
    /\ invocations = 0
    /\ world = NoWorld
    /\ now = 0
    /\ event = NoPayload
    /\ pc = "idle"
    /\ ri = 0
    /\ summary = EmptySummary
    /\ calls = <<>>
    /\ scanned = {}
    /\ failed = {}
    /\ response = NoResponse
    /\ PERFORMANCE_METRICS = NoMetrics
    /\ notification = NoNotification
    /\ store = NoDocument


(***************************************************************************)
(* Protection configuration loading and the scheduling gate.                *)
(***************************************************************************)
ProtectedTypes == {"ec2", "rds", "s3", "elb", "elasticsearch"}

\* the keys validate_protection_config copies from an entry of the loaded
\* configuration (severity_levels, which nothing reads, is left out)
ValidatedKeys == {"whitelist_patterns", "blacklist_patterns", "protected_tags",
                  "regex_patterns"}

\* validate_protection_config with a resource type that the configuration
\* lacks validated as an entry without a key
validate_protection_config_missing_as_empty(config) ==
    [resource_type \in ProtectedTypes |->
        [key \in ValidatedKeys \cup {"protected_instance_types"} |->
            IF /\ resource_type \in DOMAIN config
               /\ key \in ValidatedKeys /\ key \in DOMAIN config[resource_type]
            THEN config[resource_type][key]
            ELSE <<>>]]

\* validate_protection_config(config): config maps some resource types to
\* rules; the validated rules keep the pattern lists and the protected tags,
\* each empty when the entry lacks it; protected_instance_types, which is
\* not copied, reads as the empty list
validate_protection_config(config) ==
    [resource_type \in ProtectedTypes |->
        IF resource_type \in DOMAIN config
        THEN [key \in ValidatedKeys \cup {"protected_instance_types"} |->
                 IF key \in ValidatedKeys /\ key \in DOMAIN config[resource_type]
                 THEN config[resource_type][key]
                 ELSE <<>>]
        ELSE DEFAULT_PROTECTION_RULES[resource_type]]

\* the get_object call of load_protection_config is reached
ReadsStore(cfg) == cfg.config_source = "s3" /\ cfg.s3_config_bucket # ""

\* the outcomes of the get_object call: it fails, or returns the object
Fetches(cfg, object) ==
    IF ReadsStore(cfg) THEN {[ok |-> FALSE], [ok |-> TRUE, data |-> object]}
    ELSE {[ok |-> FALSE]}

ConfigSite == <<"get_object", "protection-config">>

\* load_protection_config(); fetched is the outcome of the get_object call,
\* [ok |-> FALSE] or [ok |-> TRUE, data |-> the parsed configuration]
load_protection_config(cfg, fetched) ==
    IF cfg.config_source = "s3" /\ cfg.s3_config_bucket # ""
    THEN IF fetched.ok
         THEN [cfg EXCEPT !.rules = validate_protection_config(fetched.data),
                          !.config_source = "s3"]
         ELSE [cfg EXCEPT !.rules = DEFAULT_PROTECTION_RULES,
                          !.config_source = "default_fallback"]
    ELSE IF cfg.config_source = "env"
    THEN [cfg EXCEPT !.rules = DEFAULT_PROTECTION_RULES, !.config_source = "env"]
    ELSE [cfg EXCEPT !.rules = DEFAULT_PROTECTION_RULES, !.config_source = "default"]

\* should_cleanup_based_on_schedule with the business window closed by
\* "hour > 17" instead of "hour >= 17"
should_cleanup_with_late_close(business_hours_only, scheduling_mode, hour) ==
    IF business_hours_only /\ (hour < BusinessStartHour \/ hour > BusinessEndHour)
    THEN FALSE
    ELSE IF scheduling_mode = "cost_optimized" THEN TRUE
    ELSE IF scheduling_mode = "conservative" /\ hour # ConservativeHour THEN FALSE
    ELSE TRUE

\* should_cleanup_based_on_schedule with the conservative mode advisory, as
\* the cost_optimized mode is
should_cleanup_with_advisory_modes(business_hours_only, scheduling_mode, hour) ==
    IF business_hours_only /\ (hour < BusinessStartHour \/ hour >= BusinessEndHour)
    THEN FALSE
    ELSE TRUE

\* should_cleanup_based_on_schedule(), for the hour of the clock
should_cleanup_based_on_schedule(business_hours_only, scheduling_mode, hour) ==
    IF business_hours_only /\ (hour < BusinessStartHour \/ hour >= BusinessEndHour)
    THEN FALSE
    ELSE IF scheduling_mode = "cost_optimized" THEN TRUE
    ELSE IF scheduling_mode = "conservative" /\ hour # ConservativeHour THEN FALSE
    ELSE TRUE

(***************************************************************************)
(* The scans.  Each takes the listing the provider returns, the set F of    *)
(* call sites <<operation, resource or region>> that fail when reached, and *)
(* returns what the scan adds: candidates, errors, mutating calls, the      *)
(* failing sites it reached and the count it reports.                       *)
(***************************************************************************)
Call(op, id, ok) == [op |-> op, id |-> id, ok |-> ok]
Err(src, ref, msg) == [src |-> src, ref |-> ref, msg |-> msg]
NoEffect == [cands |-> <<>>, errors |-> <<>>, calls |-> <<>>, failed |-> {}, count |-> 0]
Unnamed == <<"U","n","n","a","m","e","d">>

\* what the scans read of the invocation
Ctx == [now |-> now, MAX_AGE_DAYS |-> MAX_AGE_DAYS, DRY_RUN |-> DRY_RUN,
        cfg |-> PROTECTION_CONFIG]

\* shutdown_old_ec2_instances: the body of the loop over the instances
RECURSIVE Ec2Loop(_, _, _, _, _)
Ec2Loop(items, region, ctx, F, acc) ==
    IF items = <<>> THEN acc
    ELSE LET instance == Head(items)
             name == IF "Name" \in DOMAIN instance.tags
                     THEN instance.tags["Name"] ELSE Unnamed
             age_days == get_age_days(ctx.now, ctx.now - instance.ago)
             cand == [id |-> instance.id, name |-> name, region |-> region,
                      age_days |-> age_days, type |-> instance.InstanceType]
             added == [acc EXCEPT !.cands = Append(@, cand)]
             stop == Call("stop_instances", instance.id, TRUE)
             raised == is_resource_protected_raises(ctx.cfg, "ec2", name)
             nxt ==
                IF is_resource_protected(ctx.cfg, "ec2", name, instance.tags,
                                         instance.InstanceType)
                THEN acc
                ELSE IF ~(age_days >= ctx.MAX_AGE_DAYS) THEN acc
                ELSE IF ctx.DRY_RUN THEN [added EXCEPT !.count = @ + 1]
                ELSE IF <<"stop_instances", instance.id>> \in F
                THEN [added EXCEPT
                        !.calls = Append(@, Call("stop_instances", instance.id, FALSE)),
                        !.errors = Append(@, Err("EC2", instance.id, "exception")),
                        !.failed = @ \cup {<<"stop_instances", instance.id>>}]
                ELSE IF <<"create_tags", instance.id>> \in F
                THEN [added EXCEPT
                        !.calls = @ \o <<stop, Call("create_tags", instance.id, FALSE)>>,
                        !.errors = Append(@, Err("EC2", instance.id, "exception")),
                        !.failed = @ \cup {<<"create_tags", instance.id>>}]
                ELSE [added EXCEPT
                        !.calls = @ \o <<stop, Call("create_tags", instance.id, TRUE)>>,
                        !.count = @ + 1]
         IN IF raised
            THEN [acc EXCEPT !.errors = Append(@, Err("EC2 scan", region, "re.error"))]
            ELSE Ec2Loop(Tail(items), region, ctx, F, nxt)

\* shutdown_old_ec2_instances(ec2_client, region, summary)
shutdown_old_ec2_instances(listing, region, ctx, F) ==
    IF <<"describe_instances", region>> \in F
    THEN [NoEffect EXCEPT !.errors = <<Err("EC2 scan", region, "exception")>>,
                          !.failed = {<<"describe_instances", region>>}]
    ELSE Ec2Loop(listing, region, ctx, F, NoEffect)

\* shutdown_old_rds_instances: the body of the loop over the instances
RECURSIVE RdsLoop(_, _, _, _, _)
RdsLoop(items, region, ctx, F, acc) ==
    IF items = <<>> THEN acc
    ELSE LET db == Head(items)
             age_days == get_age_days(ctx.now, ctx.now - db.ago)
             tagsFail == <<"list_tags_for_resource", db.id>> \in F
             tags_dict == IF tagsFail THEN NoTags ELSE db.tags
             seen == IF tagsFail
                     THEN [acc EXCEPT !.failed = @ \cup {<<"list_tags_for_resource", db.id>>}]
                     ELSE acc
             cand == [id |-> db.id, region |-> region,
                      age_days |-> age_days, type |-> db.DBInstanceClass]
             added == [seen EXCEPT !.cands = Append(@, cand)]
             stop == Call("stop_db_instance", db.id, TRUE)
             raised == /\ db.DBInstanceStatus = "available"
                       /\ is_resource_protected_raises(ctx.cfg, "rds", db.name)
             nxt ==
                IF db.DBInstanceStatus # "available" THEN acc
                ELSE IF is_resource_protected(ctx.cfg, "rds", db.name, tags_dict, "")
                THEN seen
                ELSE IF ~(age_days >= ctx.MAX_AGE_DAYS) THEN seen
                ELSE IF ctx.DRY_RUN THEN [added EXCEPT !.count = @ + 1]
                ELSE IF <<"stop_db_instance", db.id>> \in F
                THEN [added EXCEPT
                        !.calls = Append(@, Call("stop_db_instance", db.id, FALSE)),
                        !.errors = Append(@, Err("RDS", db.id, "exception")),
                        !.failed = @ \cup {<<"stop_db_instance", db.id>>}]
                ELSE IF <<"add_tags_to_resource", db.id>> \in F
                THEN [added EXCEPT
                        !.calls = @ \o <<stop, Call("add_tags_to_resource", db.id, FALSE)>>,
                        !.errors = Append(@, Err("RDS", db.id, "exception")),
                        !.failed = @ \cup {<<"add_tags_to_resource", db.id>>}]
                ELSE [added EXCEPT
                        !.calls = @ \o <<stop, Call("add_tags_to_resource", db.id, TRUE)>>,
                        !.count = @ + 1]
         IN IF raised
            THEN [seen EXCEPT !.errors = Append(@, Err("RDS scan", region, "re.error"))]
            ELSE RdsLoop(Tail(items), region, ctx, F, nxt)

\* shutdown_old_rds_instances(rds_client, region, summary)
shutdown_old_rds_instances(listing, region, ctx, F) ==
    IF <<"describe_db_instances", region>> \in F
    THEN [NoEffect EXCEPT !.errors = <<Err("RDS scan", region, "exception")>>,
                          !.failed = {<<"describe_db_instances", region>>}]
    ELSE RdsLoop(listing, region, ctx, F, NoEffect)

\* shutdown_old_ecs_services: the loop over the services of one cluster
RECURSIVE EcsServiceLoop(_, _, _, _, _, _)
EcsServiceLoop(items, cluster, region, ctx, F, acc) ==
    IF items = <<>> THEN acc
    ELSE LET service == Head(items)
             age_days == get_age_days(ctx.now, ctx.now - service.ago)
             cand == [id |-> service.id, name |-> service.name, cluster |-> cluster,
                      region |-> region, age_days |-> age_days,
                      desired_count |-> service.desiredCount]
             added == [acc EXCEPT !.cands = Append(@, cand)]
             nxt ==
                IF ~(service.desiredCount > 0) THEN acc
                ELSE IF ~(age_days >= ctx.MAX_AGE_DAYS) THEN acc
                ELSE IF ctx.DRY_RUN THEN [added EXCEPT !.count = @ + 1]
                ELSE IF <<"update_service", service.id>> \in F
                THEN [added EXCEPT
                        !.calls = Append(@, Call("update_service", service.id, FALSE)),
                        !.errors = Append(@, Err("ECS", service.id, "exception")),
                        !.failed = @ \cup {<<"update_service", service.id>>}]
                ELSE [added EXCEPT
                        !.calls = Append(@, Call("update_service", service.id, TRUE)),
                        !.count = @ + 1]
         IN EcsServiceLoop(Tail(items), cluster, region, ctx, F, nxt)

\* shutdown_old_ecs_services: the body of the loop over the clusters
RECURSIVE EcsClusterLoop(_, _, _, _, _)
EcsClusterLoop(clusters, region, ctx, F, acc) ==
    IF clusters = <<>> THEN acc
    ELSE LET cluster == Head(clusters)
             nxt ==
                IF <<"list_services", cluster.id>> \in F
                THEN [acc EXCEPT !.failed = @ \cup {<<"list_services", cluster.id>>}]
                ELSE IF cluster.services = <<>> THEN acc
                ELSE IF <<"describe_services", cluster.id>> \in F
                THEN [acc EXCEPT !.failed = @ \cup {<<"describe_services", cluster.id>>}]
                ELSE EcsServiceLoop(cluster.services, cluster.id, region, ctx, F, acc)
         IN EcsClusterLoop(Tail(clusters), region, ctx, F, nxt)

\* shutdown_old_ecs_services(ecs_client, region, summary)
shutdown_old_ecs_services(listing, region, ctx, F) ==
    IF <<"list_clusters", region>> \in F
    THEN [NoEffect EXCEPT !.errors = <<Err("ECS scan", region, "exception")>>,
                          !.failed = {<<"list_clusters", region>>}]
    ELSE EcsClusterLoop(listing, region, ctx, F, NoEffect)

\* cleanup_nat_gateways: the body of the loop over the gateways
RECURSIVE NatLoop(_, _, _, _, _)
NatLoop(items, region, ctx, F, acc) ==
    IF items = <<>> THEN acc
    ELSE LET nat == Head(items)
             age_days == get_age_days(ctx.now, ctx.now - nat.ago)
             cand == [id |-> nat.id, region |-> region, age_days |-> age_days]
             added == [acc EXCEPT !.cands = Append(@, cand)]
             nxt ==
                IF ~(age_days >= ctx.MAX_AGE_DAYS) THEN acc
                ELSE IF ctx.DRY_RUN THEN [added EXCEPT !.count = @ + 1]
                ELSE IF <<"delete_nat_gateway", nat.id>> \in F
                THEN [added EXCEPT
                        !.calls = Append(@, Call("delete_nat_gateway", nat.id, FALSE)),
                        !.errors = Append(@, Err("NAT", nat.id, "exception")),
                        !.failed = @ \cup {<<"delete_nat_gateway", nat.id>>}]
                ELSE [added EXCEPT
                        !.calls = Append(@, Call("delete_nat_gateway", nat.id, TRUE)),
                        !.count = @ + 1]
         IN NatLoop(Tail(items), region, ctx, F, nxt)

\* a loop over the gateways that lists a gateway in the summary once it is
\* deleted (or, in a dry run, once it is found)
RECURSIVE NatLoopListingDeleted(_, _, _, _, _)
NatLoopListingDeleted(items, region, ctx, F, acc) ==
    IF items = <<>> THEN acc
    ELSE LET nat == Head(items)
             age_days == get_age_days(ctx.now, ctx.now - nat.ago)
             cand == [id |-> nat.id, region |-> region, age_days |-> age_days]
             nxt ==
                IF ~(age_days >= ctx.MAX_AGE_DAYS) THEN acc
                ELSE IF ctx.DRY_RUN
                THEN [acc EXCEPT !.cands = Append(@, cand), !.count = @ + 1]
                ELSE IF <<"delete_nat_gateway", nat.id>> \in F
                THEN [acc EXCEPT
                        !.calls = Append(@, Call("delete_nat_gateway", nat.id, FALSE)),
                        !.errors = Append(@, Err("NAT", nat.id, "exception")),
                        !.failed = @ \cup {<<"delete_nat_gateway", nat.id>>}]
                ELSE [acc EXCEPT
                        !.cands = Append(@, cand),
                        !.calls = Append(@, Call("delete_nat_gateway", nat.id, TRUE)),
                        !.count = @ + 1]
         IN NatLoopListingDeleted(Tail(items), region, ctx, F, nxt)
cleanup_nat_gateways_listing_deleted(listing, region, ctx, F) ==
    IF <<"describe_nat_gateways", region>> \in F
    THEN [NoEffect EXCEPT !.errors = <<Err("NAT scan", region, "exception")>>,
                          !.failed = {<<"describe_nat_gateways", region>>}]
    ELSE NatLoopListingDeleted(listing, region, ctx, F, NoEffect)

\* cleanup_nat_gateways without the "if not DRY_RUN" guard of the deletion
cleanup_nat_gateways_unguarded(listing, region, ctx, F) ==
    IF <<"describe_nat_gateways", region>> \in F
    THEN [NoEffect EXCEPT !.errors = <<Err("NAT scan", region, "exception")>>,
                          !.failed = {<<"describe_nat_gateways", region>>}]
    ELSE NatLoop(listing, region, [ctx EXCEPT !.DRY_RUN = FALSE], F, NoEffect)

\* cleanup_nat_gateways(ec2_client, region, summary)
cleanup_nat_gateways(listing, region, ctx, F) ==
    IF <<"describe_nat_gateways", region>> \in F
    THEN [NoEffect EXCEPT !.errors = <<Err("NAT scan", region, "exception")>>,
                          !.failed = {<<"describe_nat_gateways", region>>}]
    ELSE NatLoop(listing, region, ctx, F, NoEffect)


\* cleanup_old_load_balancers: the body of the loop over the ELBv2 balancers
RECURSIVE Elbv2Loop(_, _, _, _, _)
Elbv2Loop(items, region, ctx, F, acc) ==
    IF items = <<>> THEN acc
    ELSE LET lb == Head(items)
             age_days == get_age_days(ctx.now, ctx.now - lb.ago)
             cand == [id |-> lb.id, name |-> lb.name, type |-> "application",
                      region |-> region, age_days |-> age_days]
             added == [acc EXCEPT !.cands = Append(@, cand)]
             nxt ==
                IF is_resource_excluded(lb.name, ELB_NAME_EXCLUSIONS) THEN acc
                ELSE IF ~(age_days >= ctx.MAX_AGE_DAYS) THEN acc
                ELSE IF ctx.DRY_RUN THEN [added EXCEPT !.count = @ + 1]
                ELSE IF <<"elbv2_delete_load_balancer", lb.id>> \in F
                THEN [added EXCEPT
                        !.calls = Append(@, Call("elbv2_delete_load_balancer", lb.id, FALSE)),
                        !.errors = Append(@, Err("ALB", lb.id, "exception")),
                        !.failed = @ \cup {<<"elbv2_delete_load_balancer", lb.id>>}]
                ELSE [added EXCEPT
                        !.calls = Append(@, Call("elbv2_delete_load_balancer", lb.id, TRUE)),
                        !.count = @ + 1]
         IN Elbv2Loop(Tail(items), region, ctx, F, nxt)

\* cleanup_old_load_balancers: the body of the loop over the classic
\* balancers.  counters: lb_processed and lb_deleted are bound, which they
\* are only when the ELBv2 listing succeeded; the first use of an unbound
\* counter raises and ends the loop in the handler that only logs.
RECURSIVE ClassicLoop(_, _, _, _, _, _)
ClassicLoop(items, region, ctx, F, counters, acc) ==
    IF items = <<>> THEN acc
    ELSE IF ~counters THEN acc
    ELSE LET lb == Head(items)
             age_days == get_age_days(ctx.now, ctx.now - lb.ago)
             cand == [id |-> lb.id, name |-> lb.name, type |-> "classic",
                      region |-> region, age_days |-> age_days]
             added == [acc EXCEPT !.cands = Append(@, cand)]
             nxt ==
                IF is_resource_excluded(lb.name, ELB_NAME_EXCLUSIONS) THEN acc
                ELSE IF ~(age_days >= ctx.MAX_AGE_DAYS) THEN acc
                ELSE IF ctx.DRY_RUN THEN [added EXCEPT !.count = @ + 1]
                ELSE IF <<"elb_delete_load_balancer", lb.id>> \in F
                THEN [added EXCEPT
                        !.calls = Append(@, Call("elb_delete_load_balancer", lb.id, FALSE)),
                        !.failed = @ \cup {<<"elb_delete_load_balancer", lb.id>>}]
                ELSE [added EXCEPT
                        !.calls = Append(@, Call("elb_delete_load_balancer", lb.id, TRUE)),
                        !.count = @ + 1]
         IN ClassicLoop(Tail(items), region, ctx, F, counters, nxt)

\* cleanup_old_load_balancers(region, summary): the ELBv2 part, then the
\* classic part
cleanup_old_load_balancers(v2listing, listing, region, ctx, F) ==
    LET v2failed == <<"elbv2_describe_load_balancers", region>> \in F
        v2 == IF v2failed
              THEN [NoEffect EXCEPT
                      !.errors = <<Err("ELB scan", region, "exception")>>,
                      !.failed = {<<"elbv2_describe_load_balancers", region>>}]
              ELSE Elbv2Loop(v2listing, region, ctx, F, NoEffect)
    IN IF <<"elb_describe_load_balancers", region>> \in F
       THEN [v2 EXCEPT !.failed = @ \cup {<<"elb_describe_load_balancers", region>>}]
       ELSE ClassicLoop(listing, region, ctx, F, ~v2failed, v2)

\* cleanup_old_elasticsearch_domains: the body of the loop over the domains
RECURSIVE EsLoop(_, _, _, _, _)
EsLoop(items, region, ctx, F, acc) ==
    IF items = <<>> THEN acc
    ELSE LET domain == Head(items)
             created_time == IF domain.hasCreated THEN ctx.now - domain.ago
                             ELSE ctx.now - EsFallbackAgeDays * SecondsPerDay
             age_days == get_age_days(ctx.now, created_time)
             cand == [id |-> domain.id, name |-> domain.name, type |-> "opensearch",
                      region |-> region, age_days |-> age_days]
             added == [acc EXCEPT !.cands = Append(@, cand)]
             nxt ==
                IF is_resource_excluded(domain.name, ES_DOMAIN_EXCLUSIONS) THEN acc
                ELSE IF <<"describe_domain", domain.id>> \in F
                THEN [acc EXCEPT !.failed = @ \cup {<<"describe_domain", domain.id>>}]
                ELSE IF ~(age_days >= ctx.MAX_AGE_DAYS /\ ~domain.Processing) THEN acc
                ELSE IF ctx.DRY_RUN THEN [added EXCEPT !.count = @ + 1]
                ELSE IF <<"delete_domain", domain.id>> \in F
                THEN [added EXCEPT
                        !.calls = Append(@, Call("delete_domain", domain.id, FALSE)),
                        !.errors = Append(@, Err("ES", domain.id, "exception")),
                        !.failed = @ \cup {<<"delete_domain", domain.id>>}]
                ELSE [added EXCEPT
                        !.calls = Append(@, Call("delete_domain", domain.id, TRUE)),
                        !.count = @ + 1]
         IN EsLoop(Tail(items), region, ctx, F, nxt)

\* a loop over the domains that goes by the age alone, without reading the
\* Processing attribute
RECURSIVE EsLoopByAgeAlone(_, _, _, _, _)
EsLoopByAgeAlone(items, region, ctx, F, acc) ==
    IF items = <<>> THEN acc
    ELSE EsLoopByAgeAlone(Tail(items), region, ctx, F,
                          EsLoop(<<[Head(items) EXCEPT !.Processing = FALSE]>>,
                                 region, ctx, F, acc))
cleanup_old_elasticsearch_domains_by_age_alone(listing, region, ctx, F) ==
    IF <<"list_domain_names", region>> \in F
    THEN [NoEffect EXCEPT !.errors = <<Err("ES scan", region, "exception")>>,
                          !.failed = {<<"list_domain_names", region>>}]
    ELSE EsLoopByAgeAlone(listing, region, ctx, F, NoEffect)

\* cleanup_old_elasticsearch_domains(region, summary)
cleanup_old_elasticsearch_domains(listing, region, ctx, F) ==
    IF <<"list_domain_names", region>> \in F
    THEN [NoEffect EXCEPT !.errors = <<Err("ES scan", region, "exception")>>,
                          !.failed = {<<"list_domain_names", region>>}]
    ELSE EsLoop(listing, region, ctx, F, NoEffect)

\* the objects list_objects_v2(Bucket, MaxKeys=100) returns for a bucket
ListedObjects(bucket) == IF bucket.objects < S3MaxKeys THEN bucket.objects ELSE S3MaxKeys

\* the body of "if not DRY_RUN" with only a full listing counting as large:
\* "len(objects['Contents']) <= 100" instead of "< 100"
S3DeleteUpToLimit(bucket, F, added) ==
    LET listFails == <<"list_objects_v2", bucket.id>> \in F
        n == ListedObjects(bucket)
        small == ~listFails /\ n > 0 /\ n <= S3SmallBucketLimit
        emptyFails == small /\ <<"delete_objects", bucket.id>> \in F
        inner == [added EXCEPT
                    !.calls = IF small
                              THEN Append(@, Call("delete_objects", bucket.id, ~emptyFails))
                              ELSE @,
                    !.failed = @ \cup (IF listFails THEN {<<"list_objects_v2", bucket.id>>}
                                       ELSE {})
                                 \cup (IF emptyFails THEN {<<"delete_objects", bucket.id>>}
                                       ELSE {})]
    IN IF ~listFails /\ n > 0 /\ ~small
       THEN [added EXCEPT !.errors = Append(@, Err("S3", bucket.id, "not empty"))]
       ELSE IF <<"delete_bucket", bucket.id>> \in F
       THEN [inner EXCEPT
               !.calls = Append(@, Call("delete_bucket", bucket.id, FALSE)),
               !.errors = Append(@, Err("S3", bucket.id, "exception")),
               !.failed = @ \cup {<<"delete_bucket", bucket.id>>}]
       ELSE [inner EXCEPT
               !.calls = Append(@, Call("delete_bucket", bucket.id, TRUE)),
               !.count = @ + 1]

\* cleanup_old_s3_buckets: emptying and deleting one bucket (the body of
\* "if not DRY_RUN"), added being the state after the summary entry
S3Delete(bucket, F, added) ==
    LET listFails == <<"list_objects_v2", bucket.id>> \in F
        n == ListedObjects(bucket)
        small == ~listFails /\ n > 0 /\ n < S3SmallBucketLimit
        emptyFails == small /\ <<"delete_objects", bucket.id>> \in F
        \* after the inner try: the listing and, for a small bucket, the emptying
        inner == [added EXCEPT
                    !.calls = IF small
                              THEN Append(@, Call("delete_objects", bucket.id, ~emptyFails))
                              ELSE @,
                    !.failed = @ \cup (IF listFails THEN {<<"list_objects_v2", bucket.id>>}
                                       ELSE {})
                                 \cup (IF emptyFails THEN {<<"delete_objects", bucket.id>>}
                                       ELSE {})]
    IN IF ~listFails /\ n > 0 /\ ~(n < S3SmallBucketLimit)
       THEN [added EXCEPT !.errors = Append(@, Err("S3", bucket.id, "not empty"))]
       ELSE IF <<"delete_bucket", bucket.id>> \in F
       THEN [inner EXCEPT
               !.calls = Append(@, Call("delete_bucket", bucket.id, FALSE)),
               !.errors = Append(@, Err("S3", bucket.id, "exception")),
               !.failed = @ \cup {<<"delete_bucket", bucket.id>>}]
       ELSE [inner EXCEPT
               !.calls = Append(@, Call("delete_bucket", bucket.id, TRUE)),
               !.count = @ + 1]

\* cleanup_old_s3_buckets: the body of the loop over the buckets
RECURSIVE S3Loop(_, _, _, _)
S3Loop(items, ctx, F, acc) ==
    IF items = <<>> THEN acc
    ELSE LET bucket == Head(items)
             age_days == get_age_days(ctx.now, ctx.now - bucket.ago)
             locFails == <<"get_bucket_location", bucket.id>> \in F
             cand == [id |-> bucket.id, name |-> bucket.name,
                      region |-> IF locFails THEN "unknown" ELSE "us-east-1",
                      age_days |-> age_days]
             added == [acc EXCEPT
                         !.cands = Append(@, cand),
                         !.failed = @ \cup (IF locFails
                                            THEN {<<"get_bucket_location", bucket.id>>}
                                            ELSE {})]
             nxt ==
                IF is_resource_excluded(bucket.name, S3_BUCKET_EXCLUSIONS) THEN acc
                ELSE IF ~(age_days >= ctx.MAX_AGE_DAYS) THEN acc
                ELSE IF ctx.DRY_RUN THEN [added EXCEPT !.count = @ + 1]
                ELSE S3Delete(bucket, F, added)
         IN S3Loop(Tail(items), ctx, F, nxt)

\* cleanup_old_s3_buckets(summary)
cleanup_old_s3_buckets(listing, ctx, F) ==
    IF <<"list_buckets", "s3">> \in F
    THEN [NoEffect EXCEPT !.errors = <<Err("S3 scan", "s3", "exception")>>,
                          !.failed = {<<"list_buckets", "s3">>}]
    ELSE S3Loop(listing, ctx, F, NoEffect)


(***************************************************************************)
(* lambda_handler.                                                          *)
(***************************************************************************)
\* the sets of call sites that can still fail in this invocation
RECURSIVE SubsetsUpTo(_, _)
SubsetsUpTo(S, k) ==
    IF k <= 0 THEN {{}}
    ELSE LET P == SubsetsUpTo(S, k - 1) IN P \cup {T \cup {x} : T \in P, x \in S}

FailureSets(sites) == SubsetsUpTo(sites, MaxFailures - Cardinality(failed))

SitesOf(ops, items) == {<<op, items[i].id>> : op \in ops, i \in 1..Len(items)}

RECURSIVE ServicesOf(_)
ServicesOf(clusters) ==
    IF clusters = <<>> THEN <<>>
    ELSE Head(clusters).services \o ServicesOf(Tail(clusters))

\* a handler that goes on to the buckets after any region
AfterAnyRegion == "s3"

\* the position after the last provider type of region REGIONS[ri], and
\* after a failure that the handler of the region loop caught
AfterRegion == IF ri < Len(REGIONS) THEN "ec2" ELSE "s3"
NextRegion == IF ri < Len(REGIONS) THEN ri + 1 ELSE ri

\* the first call of the scan of a unit; the scan function logs its latency
\* when it returns and leaves through its handler when it raises
ListingSite(unit) ==
    CASE unit[2] = "ec2" -> <<"describe_instances", unit[1]>>
      [] unit[2] = "rds" -> <<"describe_db_instances", unit[1]>>
      [] unit[2] = "ecs" -> <<"list_clusters", unit[1]>>
      [] unit[2] = "nat" -> <<"describe_nat_gateways", unit[1]>>
      [] unit[2] = "elb" -> <<"elbv2_describe_load_balancers", unit[1]>>
      [] unit[2] = "es" -> <<"list_domain_names", unit[1]>>
      [] OTHER -> <<"list_buckets", "s3">>
\* the key of the unit's resource type in resource_counts, and the keys the
\* scans update with "+=" (the others are assigned)
CountKey(unit) == IF unit[2] = "es" THEN "elasticsearch" ELSE unit[2]
SummedCounts == {"ec2", "rds", "ecs", "nat"}

\* log_performance and the update of resource_counts by the scan of unit
\* that returned r, and the region time written after the last scan of a
\* region
record_performance(pm, r, unit, inv) ==
    LET completed == /\ ListingSite(unit) \notin r.failed
                     /\ \A i \in 1..Len(r.errors) : r.errors[i].msg # "re.error"
        logged == \/ completed
                  \/ unit[2] = "elb"
                     /\ <<"elb_describe_load_balancers", unit[1]>> \notin r.failed
        key == CountKey(unit)
        counts == pm.resource_counts
        times == pm.region_times
    IN [pm EXCEPT
          !.api_call_latencies = IF logged THEN @ \cup {inv} ELSE @,
          !.resource_counts =
              IF completed
              THEN [k \in DOMAIN counts \cup {key} |->
                      IF k # key THEN counts[k]
                      ELSE IF key \in SummedCounts /\ key \in DOMAIN counts
                      THEN counts[key] \cup {inv}
                      ELSE {inv}]
              ELSE counts,
          !.region_times =
              IF unit[2] = "es"
              THEN [k \in DOMAIN times \cup {unit[1]} |->
                      IF k = unit[1] THEN inv ELSE times[k]]
              ELSE times]

\* the scan of one unit returned r: its candidates and errors go to the
\* summary, its calls to the record of calls
Apply(key, r, unit, nextpc, nextri) ==
    /\ summary' = [summary EXCEPT ![key] = @ \o r.cands, !.errors = @ \o r.errors]
    /\ PERFORMANCE_METRICS' = record_performance(PERFORMANCE_METRICS, r, unit, invocations)
    /\ calls' = calls \o r.calls
    /\ failed' = failed \cup r.failed
    /\ scanned' = scanned \cup {unit}
    /\ pc' = nextpc
    /\ ri' = nextri

\* the handler of the region loop caught an exception of site
RegionFails(region, site) ==
    /\ summary' = [summary EXCEPT !.errors = Append(@, Err("Region", region, "exception"))]
    /\ failed' = failed \cup {site}
    /\ pc' = AfterRegion
    /\ ri' = NextRegion
    /\ UNCHANGED <<calls, scanned, PERFORMANCE_METRICS>>

Invocation == <<env, MAX_AGE_DAYS, DRY_RUN, PROTECTION_CONFIG, invocations, world,
                now, event, response, notification, store>>

\* lambda_handler(event, context) up to the region loop: the protection
\* rules, the scheduling gate, the payload overrides and the empty summary
Invoke ==
    /\ pc = "idle"
    /\ invocations < MaxInvocations
    /\ \E ev \in Events, t \in Clocks, w \in Worlds,
          fetched \in Fetches(PROTECTION_CONFIG, store) :
        /\ event' = ev
        /\ now' = t
        /\ world' = w
        /\ invocations' = invocations + 1
        /\ PROTECTION_CONFIG' = load_protection_config(PROTECTION_CONFIG, fetched)
        /\ calls' = <<>>
        /\ scanned' = {}
        /\ failed' = IF ReadsStore(PROTECTION_CONFIG) /\ ~fetched.ok
                      THEN {ConfigSite} ELSE {}
        /\ PERFORMANCE_METRICS' = [PERFORMANCE_METRICS EXCEPT !.start_time = invocations + 1]
        /\ notification' = NoNotification
        /\ IF ~should_cleanup_based_on_schedule(env.BUSINESS_HOURS_ONLY,
                                                env.SCHEDULING_MODE, HourOf(t))
           THEN /\ response' = [statusCode |-> 200,
                                message |-> "Cleanup skipped - outside scheduled window",
                                correlation_id |-> invocations + 1,
                                scheduling_mode |-> env.SCHEDULING_MODE]
                /\ summary' = EmptySummary
                /\ UNCHANGED <<MAX_AGE_DAYS, DRY_RUN, pc, ri>>
           ELSE /\ MAX_AGE_DAYS' = IF "max_age_days" \in DOMAIN ev
                                   THEN ev.max_age_days ELSE MAX_AGE_DAYS
                /\ DRY_RUN' = IF "dry_run" \in DOMAIN ev THEN ev.dry_run ELSE DRY_RUN
                /\ summary' = [EmptySummary EXCEPT
                                 !.correlation_id = invocations + 1,
                                 !.max_age_days = MAX_AGE_DAYS',
                                 !.dry_run = DRY_RUN']
                /\ response' = NoResponse
                /\ pc' = "ec2"
                /\ ri' = 1
    /\ UNCHANGED <<env, store>>

\* ec2_client = boto3.client('ec2', ...); shutdown_old_ec2_instances(...)
ScanEC2 ==
    /\ pc = "ec2"
    /\ LET region == REGIONS[ri]
           listing == world.regions[region].ec2
           sites == {<<"client_ec2", region>>, <<"describe_instances", region>>}
                    \cup SitesOf({"stop_instances", "create_tags"}, listing)
       IN \E F \in FailureSets(sites) :
            IF <<"client_ec2", region>> \in F
            THEN F = {<<"client_ec2", region>>}
                 /\ RegionFails(region, <<"client_ec2", region>>)
            ELSE LET r == shutdown_old_ec2_instances(listing, region, Ctx, F)
                 IN r.failed = F
                    /\ Apply("ec2_instances", r, <<region, "ec2">>, "rds", ri)
    /\ UNCHANGED Invocation

\* rds_client = boto3.client('rds', ...); shutdown_old_rds_instances(...)
ScanRDS ==
    /\ pc = "rds"
    /\ LET region == REGIONS[ri]
           listing == world.regions[region].rds
           sites == {<<"client_rds", region>>, <<"describe_db_instances", region>>}
                    \cup SitesOf({"list_tags_for_resource", "stop_db_instance",
                                  "add_tags_to_resource"}, listing)
       IN \E F \in FailureSets(sites) :
            IF <<"client_rds", region>> \in F
            THEN F = {<<"client_rds", region>>}
                 /\ RegionFails(region, <<"client_rds", region>>)
            ELSE LET r == shutdown_old_rds_instances(listing, region, Ctx, F)
                 IN r.failed = F
                    /\ Apply("rds_instances", r, <<region, "rds">>, "ecs", ri)
    /\ UNCHANGED Invocation

\* ecs_client = boto3.client('ecs', ...); shutdown_old_ecs_services(...)
ScanECS ==
    /\ pc = "ecs"
    /\ LET region == REGIONS[ri]
           listing == world.regions[region].ecs
           sites == {<<"client_ecs", region>>, <<"list_clusters", region>>}
                    \cup SitesOf({"list_services", "describe_services"}, listing)
                    \cup SitesOf({"update_service"}, ServicesOf(listing))
       IN \E F \in FailureSets(sites) :
            IF <<"client_ecs", region>> \in F
            THEN F = {<<"client_ecs", region>>}
                 /\ RegionFails(region, <<"client_ecs", region>>)
            ELSE LET r == shutdown_old_ecs_services(listing, region, Ctx, F)
                 IN r.failed = F
                    /\ Apply("ecs_services", r, <<region, "ecs">>, "nat", ri)
    /\ UNCHANGED Invocation

\* cleanup_nat_gateways(ec2_client, region, summary)
ScanNAT ==
    /\ pc = "nat"
    /\ LET region == REGIONS[ri]
           listing == world.regions[region].nat
           sites == {<<"describe_nat_gateways", region>>}
                    \cup SitesOf({"delete_nat_gateway"}, listing)
       IN \E F \in FailureSets(sites) :
            LET r == cleanup_nat_gateways(listing, region, Ctx, F)
            IN r.failed = F
               /\ Apply("nat_gateways", r, <<region, "nat">>, "elb", ri)
    /\ UNCHANGED Invocation

\* cleanup_old_load_balancers(region, summary)
ScanELB ==
    /\ pc = "elb"
    /\ LET region == REGIONS[ri]
           v2listing == world.regions[region].elbv2
           listing == world.regions[region].elb
           sites == {<<"elbv2_describe_load_balancers", region>>,
                     <<"elb_describe_load_balancers", region>>}
                    \cup SitesOf({"elbv2_delete_load_balancer"}, v2listing)
                    \cup SitesOf({"elb_delete_load_balancer"}, listing)
       IN \E F \in FailureSets(sites) :
            LET r == cleanup_old_load_balancers(v2listing, listing, region, Ctx, F)
            IN r.failed = F
               /\ Apply("load_balancers", r, <<region, "elb">>, "es", ri)
    /\ UNCHANGED Invocation

\* cleanup_old_elasticsearch_domains(region, summary), the last provider
\* type of the region
ScanES ==
    /\ pc = "es"
    /\ LET region == REGIONS[ri]
           listing == world.regions[region].es
           sites == {<<"list_domain_names", region>>}
                    \cup SitesOf({"describe_domain", "delete_domain"}, listing)
       IN \E F \in FailureSets(sites) :
            LET r == cleanup_old_elasticsearch_domains(listing, region, Ctx, F)
            IN r.failed = F
               /\ Apply("elasticsearch_domains", r, <<region, "es">>,
                        AfterRegion, NextRegion)
    /\ UNCHANGED Invocation

\* cleanup_old_s3_buckets(summary), once after the regions
ScanS3 ==
    /\ pc = "s3"
    /\ LET listing == world.buckets
           sites == {<<"list_buckets", "s3">>}
                    \cup SitesOf({"get_bucket_location", "list_objects_v2",
                                  "delete_objects", "delete_bucket"}, listing)
       IN \E F \in FailureSets(sites) :
            LET r == cleanup_old_s3_buckets(listing, Ctx, F)
            IN r.failed = F
               /\ Apply("s3_buckets", r, <<"global", "s3">>, "finish", ri)
    /\ UNCHANGED Invocation

\* get_resource_cost_estimate(resource_type, resource_info, region), in
\* cents per month; resource_info[k] is None when the caller read an absent
\* key with .get
None == "None"
Ec2CostMap ==
    [k \in {"t2.micro", "t2.small", "t2.medium", "t2.large", "t3.micro", "t3.small",
            "t3.medium", "t3.large", "m5.large", "m5.xlarge", "c5.large", "c5.xlarge"} |->
        CASE k = "t2.micro" -> 850 [] k = "t2.small" -> 1700 [] k = "t2.medium" -> 3400
          [] k = "t2.large" -> 6800 [] k = "t3.micro" -> 760 [] k = "t3.small" -> 1520
          [] k = "t3.medium" -> 3040 [] k = "t3.large" -> 6080 [] k = "m5.large" -> 7000
          [] k = "m5.xlarge" -> 14000 [] k = "c5.large" -> 6200 [] OTHER -> 12400]
RdsCostMap ==
    [k \in {"db.t2.micro", "db.t2.small", "db.t3.micro", "db.t3.small", "db.m5.large",
            "db.m5.xlarge"} |->
        CASE k = "db.t2.micro" -> 1300 [] k = "db.t2.small" -> 2600
          [] k = "db.t3.micro" -> 1200 [] k = "db.t3.small" -> 2400
          [] k = "db.m5.large" -> 11500 [] OTHER -> 23000]
Ec2DefaultCost == 5000
RdsDefaultCost == 3000
NatGatewayCost == 4500
UnknownCost == 1000
ElbCost == 2500
\* 0.023 dollars per GB stored, and the size assumed for a bucket
S3CentsPerTenGb == 23
S3DefaultSizeGb == 10
EsCostMap ==
    [x \in {"t2.small.elasticsearch", "t2.medium.elasticsearch", "m5.large.elasticsearch"} |->
        CASE x = "t2.small.elasticsearch" -> 3700
          [] x = "t2.medium.elasticsearch" -> 7400
          [] x = "m5.large.elasticsearch" -> 14200]
EsDefaultCost == 5000
\* the savings above which analyze_cost_impact recommends a review, in cents
HighImpactSavings == 50000
\* send_notification: entries shown of a resource list and of the errors
ListLimit == 10
ErrorLimit == 5
\* the deployment analysed: cost analysis on (the default)
COST_ANALYSIS_ENABLED == TRUE

get_resource_cost_estimate(resource_type, resource_info) ==
    IF resource_type = "ec2"
    THEN LET instance_type == IF "instance_type" \in DOMAIN resource_info
                              THEN resource_info.instance_type ELSE "t2.micro"
         IN IF instance_type \in DOMAIN Ec2CostMap THEN Ec2CostMap[instance_type]
            ELSE Ec2DefaultCost
    ELSE IF resource_type = "rds"
    THEN LET instance_class == IF "instance_class" \in DOMAIN resource_info
                               THEN resource_info.instance_class ELSE "db.t2.micro"
         IN IF instance_class \in DOMAIN RdsCostMap THEN RdsCostMap[instance_class]
            ELSE RdsDefaultCost
    ELSE IF resource_type = "nat_gateway" THEN NatGatewayCost
    ELSE IF resource_type = "elb" THEN ElbCost
    ELSE IF resource_type = "s3"
    THEN LET size_gb == IF "size_gb" \in DOMAIN resource_info
                        THEN resource_info.size_gb ELSE S3DefaultSizeGb
         IN (size_gb * S3CentsPerTenGb) \div 10
    ELSE IF resource_type = "elasticsearch"
    THEN LET instance_type == IF "instance_type" \in DOMAIN resource_info
                              THEN resource_info.instance_type
                              ELSE "t2.small.elasticsearch"
         IN IF instance_type \in DOMAIN EsCostMap THEN EsCostMap[instance_type]
            ELSE EsDefaultCost
    ELSE UnknownCost

\* resource.get(key)
Get(resource, key) == IF key \in DOMAIN resource THEN resource[key] ELSE None

\* a sort by cost that places a resource before the resources of equal cost
\* found earlier
RECURSIVE InsertBeforeEqualCost(_, _)
InsertBeforeEqualCost(sorted, x) ==
    IF sorted = <<>> THEN <<x>>
    ELSE IF Head(sorted).estimated_cost > x.estimated_cost
    THEN <<Head(sorted)>> \o InsertBeforeEqualCost(Tail(sorted), x)
    ELSE <<x>> \o sorted

\* sorted(resources, key=estimated_cost, reverse=True): the order of the
\* resources of equal cost is kept
RECURSIVE InsertByCost(_, _)
InsertByCost(sorted, x) ==
    IF sorted = <<>> THEN <<x>>
    ELSE IF Head(sorted).estimated_cost >= x.estimated_cost
    THEN <<Head(sorted)>> \o InsertByCost(Tail(sorted), x)
    ELSE <<x>> \o sorted
RECURSIVE SortedByCost(_, _)
SortedByCost(resources, acc) ==
    IF resources = <<>> THEN acc
    ELSE SortedByCost(Tail(resources), InsertByCost(acc, Head(resources)))

\* the entry of a resource with its estimated_cost
WithCost(resource, cost) ==
    [k \in DOMAIN resource \cup {"estimated_cost"} |->
        IF k = "estimated_cost" THEN cost ELSE resource[k]]
Costed(resources, resource_type, info_key, key) ==
    [i \in 1..Len(resources) |->
        WithCost(resources[i],
                 get_resource_cost_estimate(resource_type,
                    IF info_key = "" THEN [k \in {} |-> None]
                    ELSE [k \in {info_key} |-> Get(resources[i], key)]))]

\* prioritize_resources_by_cost(summary)
prioritize_resources_by_cost(s) ==
    IF ~COST_ANALYSIS_ENABLED THEN s
    ELSE [s EXCEPT
            !.ec2_instances = SortedByCost(Costed(@, "ec2", "instance_type", "type"), <<>>),
            !.rds_instances = SortedByCost(Costed(@, "rds", "instance_class", "class"), <<>>),
            !.nat_gateways = SortedByCost(Costed(@, "nat_gateway", "", ""), <<>>)]

\* analyze_cost_impact: the costs of the entries of one resource type
RECURSIVE SumCosts(_)
SumCosts(costs) == IF costs = <<>> THEN 0 ELSE Head(costs) + SumCosts(Tail(costs))
SelectHighValue(entries, threshold) ==
    SelectSeq(entries, LAMBDA e : e.monthly_cost >= threshold)

\* analyze_cost_impact(summary), threshold being HIGH_VALUE_THRESHOLD
analyze_cost_impact(s, threshold) ==
    LET ec2 == [i \in 1..Len(s.ec2_instances) |->
                  [type |-> "ec2", id |-> s.ec2_instances[i].id,
                   name |-> Get(s.ec2_instances[i], "name"),
                   region |-> s.ec2_instances[i].region,
                   monthly_cost |-> get_resource_cost_estimate("ec2",
                       [instance_type |-> Get(s.ec2_instances[i], "type")])]]
        rds == [i \in 1..Len(s.rds_instances) |->
                  [type |-> "rds", id |-> s.rds_instances[i].id,
                   region |-> s.rds_instances[i].region,
                   monthly_cost |-> get_resource_cost_estimate("rds",
                       [instance_class |-> Get(s.rds_instances[i], "class")])]]
        nat == [i \in 1..Len(s.nat_gateways) |->
                  [type |-> "nat_gateway", id |-> s.nat_gateways[i].id,
                   region |-> s.nat_gateways[i].region,
                   monthly_cost |-> get_resource_cost_estimate("nat_gateway",
                                                               [k \in {} |-> None])]]
        all == ec2 \o rds \o nat
        costOf(es) == SumCosts([i \in 1..Len(es) |-> es[i].monthly_cost])
        total == costOf(all)
        high == SelectHighValue(ec2 \o rds, threshold)
    IN [total_monthly_savings |-> total,
        high_value_resources |->
            [i \in 1..Len(high) |->
                IF high[i].type = "ec2"
                THEN [type |-> "ec2", id |-> high[i].id, name |-> high[i].name,
                      monthly_cost |-> high[i].monthly_cost]
                ELSE [type |-> "rds", id |-> high[i].id,
                      monthly_cost |-> high[i].monthly_cost]],
        cost_by_type |-> [ty \in {all[i].type : i \in 1..Len(all)} |->
                            costOf(SelectSeq(all, LAMBDA e : e.type = ty))],
        cost_by_region |-> [rg \in {all[i].region : i \in 1..Len(all)} |->
                              costOf(SelectSeq(all, LAMBDA e : e.region = rg))],
        recommendations |->
            (IF total > HighImpactSavings THEN <<"High cost impact detected">> ELSE <<>>)
            \o (IF high # <<>> THEN <<"high-value resources requiring approval">>
                ELSE <<>>)]

\* the summary lambda_handler returns: the candidates in order of cost,
\* the cost analysis and the performance metrics read from the module global
FinalSummary(s) ==
    LET prioritized == prioritize_resources_by_cost(s)
        added == (IF COST_ANALYSIS_ENABLED THEN {"cost_analysis"} ELSE {})
                 \cup {"performance_metrics"}
    IN [k \in DOMAIN prioritized \cup added |->
          IF k = "cost_analysis"
          THEN analyze_cost_impact(prioritized, env.HIGH_VALUE_THRESHOLD)
          ELSE IF k = "performance_metrics"
          THEN [regions_processed |-> Len(REGIONS),
                region_times |-> PERFORMANCE_METRICS.region_times,
                resource_counts |-> PERFORMANCE_METRICS.resource_counts,
                average_api_latency_of |-> PERFORMANCE_METRICS.api_call_latencies]
          ELSE prioritized[k]]

\* total_resources of lambda_handler
TotalResources(s) ==
    Len(s.ec2_instances) + Len(s.rds_instances) + Len(s.ecs_services)
    + Len(s.nat_gateways) + Len(s.load_balancers) + Len(s.s3_buckets)
    + Len(s.elasticsearch_domains)

\* send_notification: the "... and N more" line of a list of n entries cut
\* at limit, counting from the limit on ("n >= limit")
MoreLineFromLimit(n, limit) == IF n >= limit THEN <<n - limit>> ELSE <<>>

\* send_notification: the "... and N more" line of a list of n entries cut
\* at limit
MoreLine(n, limit) == IF n > limit THEN <<n - limit>> ELSE <<>>

\* send_notification: list[:limit]
FirstEntries(list, limit) ==
    SubSeq(list, 1, IF Len(list) < limit THEN Len(list) ELSE limit)

\* send_notification: the section of the message for one list, absent when
\* the list is empty; the lines keep the fields the message prints
MessageSection(title, list, limit, fields) ==
    IF list = <<>> THEN <<>>
    ELSE <<[title |-> title,
            count |-> Len(list),
            lines |-> [i \in 1..Len(FirstEntries(list, limit)) |->
                         IF fields = {} THEN list[i]
                         ELSE [f \in fields |-> list[i][f]]],
            more |-> MoreLine(Len(list), limit)]>>

\* send_notification(summary, total_resources): the subject and the message
\* handed to sns publish
send_notification(s, total_resources) ==
    [subject |-> [total |-> total_resources,
                  verb |-> IF DRY_RUN THEN "identified" ELSE "stopped"],
     mode |-> IF DRY_RUN THEN "DRY RUN" ELSE "EXECUTED",
     correlation_id |-> s.correlation_id,
     max_age_days |-> MAX_AGE_DAYS,
     counts |-> [ec2 |-> Len(s.ec2_instances), rds |-> Len(s.rds_instances),
                 ecs |-> Len(s.ecs_services), nat |-> Len(s.nat_gateways),
                 elb |-> Len(s.load_balancers), s3 |-> Len(s.s3_buckets),
                 es |-> Len(s.elasticsearch_domains)],
     monthly_savings |-> IF "cost_analysis" \in DOMAIN s
                         THEN s.cost_analysis.total_monthly_savings ELSE 0,
     high_value |-> IF "cost_analysis" \in DOMAIN s
                    THEN Len(s.cost_analysis.high_value_resources) ELSE 0,
     sections |->
        MessageSection("EC2 Instances", s.ec2_instances, ListLimit,
                       {"id", "name", "region", "age_days"})
        \o MessageSection("RDS Instances", s.rds_instances, ListLimit,
                          {"id", "region", "age_days"})
        \o MessageSection("ECS Services", s.ecs_services, ListLimit,
                          {"name", "cluster", "region", "age_days"})
        \o MessageSection("NAT Gateways", s.nat_gateways, ListLimit,
                          {"id", "region", "age_days"})
        \o MessageSection("Errors", s.errors, ErrorLimit, {}),
     restart_hint |-> ~DRY_RUN]

\* lambda_handler after the scans: prioritization, the totals, the cost
\* analysis, the performance metrics, the notification and the response
\* with statusCode
Return(statusCode) ==
    /\ pc = "finish"
    /\ LET final == FinalSummary(summary)
           total_resources == TotalResources(final)
       IN /\ response' = [statusCode |-> statusCode,
                          message |-> "Auto-shutdown completed",
                          total_resources |-> total_resources,
                          correlation_id |-> invocations,
                          dry_run |-> DRY_RUN,
                          summary |-> final]
          /\ summary' = final
          /\ IF total_resources > 0 /\ env.SNS_TOPIC_ARN # ""
             THEN \E published \in BOOLEAN :
                    notification' = [sent |-> TRUE, published |-> published,
                                     topic |-> env.SNS_TOPIC_ARN,
                                     message |-> send_notification(final, total_resources)]
             ELSE notification' = notification
    /\ pc' = "idle"
    /\ UNCHANGED <<env, MAX_AGE_DAYS, DRY_RUN, PROTECTION_CONFIG, invocations, world,
                   now, event, ri, calls, scanned, failed, PERFORMANCE_METRICS, store>>

\* lambda_handler returning a failure status when the summary has errors
FinishFailingOnErrors == Return(IF summary.errors = <<>> THEN 200 ELSE 500)

\* lambda_handler after the scans
Finish == Return(200)

Next ==
    \/ Invoke
    \/ ScanEC2
    \/ ScanRDS
    \/ ScanECS
    \/ ScanNAT
    \/ ScanELB
    \/ ScanES
    \/ ScanS3
    \/ Finish

Spec == Init /\ [][Next]_vars


(***************************************************************************)
(* The scheduling gate on its own: every combination of the two scheduling  *)
(* variables and every hour of the day.                                     *)
(***************************************************************************)
SchedulingModes == {"cost_optimized", "aggressive", "conservative"}
DayClocks == {Ago(20, h, 0) : h \in 0..23}
GateUnchanged == <<MAX_AGE_DAYS, DRY_RUN, PROTECTION_CONFIG, invocations, world, event,
                   pc, ri, summary, calls, scanned, failed, PERFORMANCE_METRICS,
                   notification, store>>

InitSchedule ==
    /\ env \in {[DRY_RUN |-> FALSE, PROTECTION_ENABLED |-> TRUE,
                 CONFIG_SOURCE |-> "env", CONFIG_S3_BUCKET |-> "",
                 HIGH_VALUE_THRESHOLD |-> HIGH_VALUE_THRESHOLD, SNS_TOPIC_ARN |-> "",
                 BUSINESS_HOURS_ONLY |-> b, SCHEDULING_MODE |-> m] :
                    b \in BOOLEAN, m \in SchedulingModes}
    /\ MAX_AGE_DAYS = DefaultMaxAgeDays
    /\ DRY_RUN = env.DRY_RUN
    /\ PROTECTION_CONFIG = [enabled |-> env.PROTECTION_ENABLED,
                            config_source |-> env.CONFIG_SOURCE,
                            s3_config_bucket |-> env.CONFIG_S3_BUCKET,
                            rules |-> [k \in {} |-> 0]]
    /\ invocations = 0
    /\ world = NoWorld
    /\ now = 0
    /\ event = NoPayload
    /\ pc = "idle"
    /\ ri = 0
    /\ summary = EmptySummary
    /\ calls = <<>>
    /\ scanned = {}
    /\ failed = {}
    /\ response = NoResponse
    /\ PERFORMANCE_METRICS = NoMetrics
    /\ notification = NoNotification
    /\ store = NoDocument

\* should_cleanup_based_on_schedule() called at clock t
CheckSchedule ==
    \E t \in DayClocks :
        /\ now' = t
        /\ response' = [should_cleanup |->
                          should_cleanup_based_on_schedule(env.BUSINESS_HOURS_ONLY,
                                                           env.SCHEDULING_MODE, HourOf(t))]
        /\ UNCHANGED env
        /\ UNCHANGED GateUnchanged

SpecSchedule == InitSchedule /\ [][CheckSchedule]_vars

(***************************************************************************)
(* The end of an invocation on its own: the scans have left a summary with  *)
(* lists long enough to have equal costs and to pass the limits of the      *)
(* notification, under every threshold around the fixed costs.              *)
(***************************************************************************)
ReportTypes == <<"t2.micro", "m5.xlarge", "x1.32xlarge", "t2.micro", "m5.xlarge">>
ReportLengths == {0, 1, 9, 10, 11, 12}
ReportErrorLengths == {0, 4, 5, 6, 7}
ReportThresholds == {NatGatewayCost - 1, NatGatewayCost, NatGatewayCost + 1,
                     HIGH_VALUE_THRESHOLD}

ReportEc2(n) ==
    [k \in 1..n |-> [id |-> "i-" \o ToString(k), name |-> Unnamed, region |-> REGIONS[1],
                     age_days |-> 3 + k, type |-> ReportTypes[((k - 1) % Len(ReportTypes)) + 1]]]
ReportRds(n) ==
    [k \in 1..n |-> [id |-> "db-" \o ToString(k), region |-> REGIONS[1],
                     age_days |-> 3 + k, type |-> "db.m5.large"]]
ReportEcs(n) ==
    [k \in 1..n |-> [name |-> "svc-" \o ToString(k), cluster |-> "cl-main",
                     region |-> REGIONS[2], age_days |-> 3 + k, desired_count |-> k]]
ReportNat(n) ==
    [k \in 1..n |-> [id |-> "nat-" \o ToString(k), region |-> REGIONS[2], age_days |-> 3 + k]]
ReportErrors(n) ==
    [k \in 1..n |-> Err("EC2", "i-" \o ToString(k), "exception")]

InitReport ==
    /\ env \in {[DRY_RUN |-> d, PROTECTION_ENABLED |-> TRUE,
                 CONFIG_SOURCE |-> "env", CONFIG_S3_BUCKET |-> "",
                 HIGH_VALUE_THRESHOLD |-> h, SNS_TOPIC_ARN |-> a,
                 BUSINESS_HOURS_ONLY |-> FALSE, SCHEDULING_MODE |-> "cost_optimized"] :
                    d \in BOOLEAN, h \in ReportThresholds, a \in {"", TopicArn}}
    /\ MAX_AGE_DAYS = DefaultMaxAgeDays
    /\ DRY_RUN = env.DRY_RUN
    /\ PROTECTION_CONFIG = [enabled |-> env.PROTECTION_ENABLED,
                            config_source |-> env.CONFIG_SOURCE,
                            s3_config_bucket |-> env.CONFIG_S3_BUCKET,
                            rules |-> [k \in {} |-> 0]]
    /\ invocations = 1
    /\ world = NoWorld
    /\ now = Ago(20, 22, 0)
    /\ event = NoPayload
    /\ pc = "finish"
    /\ ri = Len(REGIONS)
    /\ \E n \in ReportLengths, m \in {0, 11}, e \in ReportErrorLengths :
         summary = [EmptySummary EXCEPT
                      !.correlation_id = 1,
                      !.max_age_days = MAX_AGE_DAYS,
                      !.dry_run = DRY_RUN,
                      !.ec2_instances = ReportEc2(n),
                      !.rds_instances = ReportRds(m),
                      !.ecs_services = ReportEcs(m),
                      !.nat_gateways = ReportNat(IF n > m THEN n - m ELSE m - n),
                      !.errors = ReportErrors(e)]
    /\ calls = <<>>
    /\ scanned = {}
    /\ failed = {}
    /\ response = NoResponse
    /\ PERFORMANCE_METRICS = [NoMetrics EXCEPT !.start_time = 1]
    /\ notification = NoNotification
    /\ store = NoDocument

SpecReport == InitReport /\ [][Finish]_vars

(***************************************************************************)
(* A deployment that keeps its protection rules in the external store:      *)
(* CONFIG_SOURCE is s3 and a bucket is configured.  The object of the       *)
(* store is one of a few documents; each get_object call returns it or      *)
(* fails.                                                                   *)
(***************************************************************************)
ConfigBucket == "protection-rules"

\* an entry for ec2 with a protected_instance_types list of its own
TypesDocument ==
    [ec2 |->
        [blacklist_patterns |-> << <<"*","p","r","o","d","u","c","t","i","o","n","*">> >>,
         protected_tags |-> <<EnvironmentTag>>,
         protected_instance_types |-> <<"m5.large">>]]

\* an ec2 entry whose first regex pattern does not compile and an rds entry
\* whose first blacklist pattern makes a regular expression that does not
\* compile; the pattern after each matches a resource of the inventories
MalformedDocument ==
    [ec2 |->
        [regex_patterns |-> << <<"*","p","r","o","d">>, <<"^","w","e","b","$">> >>,
         protected_tags |-> <<EnvironmentTag>>],
     rds |->
        [blacklist_patterns |-> << <<"*","(","l","e","g","a","c","y","*">>,
                                   <<"*","m","a","s","t","e","r","*">> >>,
         protected_tags |-> <<ProtectedTag>>]]

\* an rds entry without a key, and no entry for the other types
EmptyEntryDocument == [rds |-> NoDocument]

StoredConfigs == {NoDocument, TypesDocument, MalformedDocument, EmptyEntryDocument}

InitConfig ==
    /\ env = [DRY_RUN |-> FALSE, PROTECTION_ENABLED |-> TRUE,
              CONFIG_SOURCE |-> "s3", CONFIG_S3_BUCKET |-> ConfigBucket,
              HIGH_VALUE_THRESHOLD |-> HIGH_VALUE_THRESHOLD, SNS_TOPIC_ARN |-> TopicArn,
              BUSINESS_HOURS_ONLY |-> TRUE, SCHEDULING_MODE |-> "cost_optimized"]
    /\ MAX_AGE_DAYS = DefaultMaxAgeDays
    /\ DRY_RUN = env.DRY_RUN
    /\ PROTECTION_CONFIG = [enabled |-> env.PROTECTION_ENABLED,
                            config_source |-> env.CONFIG_SOURCE,
                            s3_config_bucket |-> env.CONFIG_S3_BUCKET,
                            rules |-> [k \in {} |-> 0]]
    /\ invocations = 0
    /\ world = NoWorld
    /\ now = 0
    /\ event = NoPayload
    /\ pc = "idle"
    /\ ri = 0
    /\ summary = EmptySummary
    /\ calls = <<>>
    /\ scanned = {}
    /\ failed = {}
    /\ response = NoResponse
    /\ PERFORMANCE_METRICS = NoMetrics
    /\ notification = NoNotification
    /\ store \in StoredConfigs

SpecConfig == InitConfig /\ [][Next]_vars

(***************************************************************************)
(* Protection evaluation on its own.  The rules in force are what           *)
(* load_protection_config leaves: the built-in defaults, or a validated     *)
(* document with entries for compute and database instances.  The           *)
(* resources are evaluated as the compute and the database scans call       *)
(* is_resource_protected.                                                   *)
(***************************************************************************)
ProdStar  == <<"p","r","o","d","-","*">>
StarProd  == <<"*","p","r","o","d","*">>
EvaluatedWhitelists == {<<>>, <<ProdStar>>, << <<"w","e","b">>, ProdStar >>}
EvaluatedBlacklists == {<<>>, <<StarProd, ProdStar>>}
EvaluatedRegexes == {<<>>, << <<"^","d","e","v">> >>,
                     << <<"*","d","b">>, <<"d","b","1","$">> >>}
EvaluatedTags == {<<>>, <<EnvironmentTag, ProtectedTag>>}
EvaluatedDocuments ==
    {[t \in {"ec2", "rds"} |->
        [whitelist_patterns |-> w, blacklist_patterns |-> b, regex_patterns |-> r,
         protected_tags |-> pt]] :
        w \in EvaluatedWhitelists, b \in EvaluatedBlacklists,
        r \in EvaluatedRegexes, pt \in EvaluatedTags}

EvaluatedNames == {<<"p","r","o","d","-","d","b","1">>, <<"d","e","v","-","p","r","o","d","1">>,
                   <<"W","e","b">>, <<"a","p","i">>}
EvaluatedResourceTags ==
    {NoTags, [k \in {"Protected"} |-> <<"Y","e","s">>],
     [k \in {"Protected", "Environment"} |->
        IF k = "Protected" THEN <<"n","o">> ELSE <<"P","R","O","D">>]}
\* the calls of the two scans: the compute scan passes the instance type,
\* the database scan passes the engine only
EvaluatedResources ==
    {[type |-> "ec2", name |-> n, tags |-> t, instance_type |-> it] :
        n \in EvaluatedNames, t \in EvaluatedResourceTags, it \in {"t2.micro", "m5.large"}}
    \cup {[type |-> "rds", name |-> n, tags |-> t, instance_type |-> ""] :
        n \in EvaluatedNames, t \in EvaluatedResourceTags}

InitEvaluate ==
    /\ env = [DRY_RUN |-> TRUE, PROTECTION_ENABLED |-> TRUE,
              CONFIG_SOURCE |-> "s3", CONFIG_S3_BUCKET |-> ConfigBucket,
              HIGH_VALUE_THRESHOLD |-> HIGH_VALUE_THRESHOLD, SNS_TOPIC_ARN |-> TopicArn,
              BUSINESS_HOURS_ONLY |-> FALSE, SCHEDULING_MODE |-> "cost_optimized"]
    /\ MAX_AGE_DAYS = DefaultMaxAgeDays
    /\ DRY_RUN = env.DRY_RUN
    /\ store \in EvaluatedDocuments
    /\ \E fetched \in Fetches([config_source |-> "s3", s3_config_bucket |-> ConfigBucket],
                               store) :
          PROTECTION_CONFIG =
             load_protection_config([enabled |-> env.PROTECTION_ENABLED,
                                     config_source |-> env.CONFIG_SOURCE,
                                     s3_config_bucket |-> env.CONFIG_S3_BUCKET,
                                     rules |-> [k \in {} |-> 0]], fetched)
    /\ invocations = 1
    /\ world = NoWorld
    /\ now = Ago(20, 10, 0)
    /\ event = NoPayload
    /\ pc = "ec2"
    /\ ri = 1
    /\ summary = EmptySummary
    /\ calls = <<>>
    /\ scanned = {}
    /\ failed = {}
    /\ response = NoResponse
    /\ PERFORMANCE_METRICS = NoMetrics
    /\ notification = NoNotification

\* is_resource_protected(resource_type, resource_name, resource_id, tags,
\* additional_checks) called on a resource
Evaluate ==
    \E r \in EvaluatedResources :
        /\ response' = [evaluated |-> r,
                        decision |-> protection_decision(PROTECTION_CONFIG, r.type, r.name,
                                                         r.tags, r.instance_type)]
        /\ UNCHANGED <<env, MAX_AGE_DAYS, DRY_RUN, PROTECTION_CONFIG, invocations, world,
                       now, event, pc, ri, summary, calls, scanned, failed,
                       PERFORMANCE_METRICS, notification, store>>

SpecEvaluate == InitEvaluate /\ [][Evaluate]_vars

(***************************************************************************)
(* match_pattern on its own: every value and every pattern of up to         *)
(* MaxPatternLen characters of a small alphabet with letters of both cases, *)
(* '-', '.', '(' and '*', and the names of the documentation.               *)
(***************************************************************************)
MaxPatternLen == 3
ValueChars == {"a", "B", "-", "."}
PatternChars == ValueChars \cup {"*", "("}
StringsOver(chars) ==
    UNION {[1..n -> chars] : n \in 0..MaxPatternLen}
MatchedValues ==
    StringsOver(ValueChars)
    \cup {<<"p","r","o","d","-","d","b","1">>, <<"d","e","v","-","p","r","o","d","1">>}
MatchedPatterns == StringsOver(PatternChars) \cup {ProdStar}

InitPattern ==
    /\ env = [DRY_RUN |-> TRUE, PROTECTION_ENABLED |-> TRUE,
              CONFIG_SOURCE |-> "env", CONFIG_S3_BUCKET |-> "",
              HIGH_VALUE_THRESHOLD |-> HIGH_VALUE_THRESHOLD, SNS_TOPIC_ARN |-> TopicArn,
              BUSINESS_HOURS_ONLY |-> FALSE, SCHEDULING_MODE |-> "cost_optimized"]
    /\ MAX_AGE_DAYS = DefaultMaxAgeDays
    /\ DRY_RUN = env.DRY_RUN
    /\ PROTECTION_CONFIG = [enabled |-> env.PROTECTION_ENABLED,
                            config_source |-> env.CONFIG_SOURCE,
                            s3_config_bucket |-> env.CONFIG_S3_BUCKET,
                            rules |-> DEFAULT_PROTECTION_RULES]
    /\ invocations = 1
    /\ world = NoWorld
    /\ now = Ago(20, 10, 0)
    /\ event = NoPayload
    /\ pc = "ec2"
    /\ ri = 1
    /\ summary = EmptySummary
    /\ calls = <<>>
    /\ scanned = {}
    /\ failed = {}
    /\ response = NoResponse
    /\ PERFORMANCE_METRICS = NoMetrics
    /\ notification = NoNotification
    /\ store = NoDocument

\* match_pattern(value, pattern) called: it raises re.error or returns
Match ==
    \E value \in MatchedValues, pattern \in MatchedPatterns :
        /\ response = NoResponse
        /\ response' = [value |-> value, pattern |-> pattern,
                        raised |-> match_pattern_raises(value, pattern),
                        matched |-> match_pattern(value, pattern)]
        /\ UNCHANGED <<env, MAX_AGE_DAYS, DRY_RUN, PROTECTION_CONFIG, invocations, world,
                       now, event, pc, ri, summary, calls, scanned, failed,
                       PERFORMANCE_METRICS, notification, store>>

SpecPattern == InitPattern /\ [][Match]_vars

(***************************************************************************)
(* get_age_days on its own: creation times from 40 days before the clock    *)
(* to 2 days after it, around the day boundaries, at every clock of a day.  *)
(***************************************************************************)
MaxAgeDays == 40
MaxAheadDays == 2
\* now - launch_time in seconds: whole days, and a second or an hour more
\* or less
Elapsed ==
    {d * SecondsPerDay + s : d \in (0 - MaxAheadDays)..MaxAgeDays,
                             s \in {0 - SecondsPerHour, 0 - 1, 0, 1, SecondsPerHour}}

InitAge ==
    /\ env = [DRY_RUN |-> TRUE, PROTECTION_ENABLED |-> TRUE,
              CONFIG_SOURCE |-> "env", CONFIG_S3_BUCKET |-> "",
              HIGH_VALUE_THRESHOLD |-> HIGH_VALUE_THRESHOLD, SNS_TOPIC_ARN |-> TopicArn,
              BUSINESS_HOURS_ONLY |-> FALSE, SCHEDULING_MODE |-> "cost_optimized"]
    /\ MAX_AGE_DAYS = DefaultMaxAgeDays
    /\ DRY_RUN = env.DRY_RUN
    /\ PROTECTION_CONFIG = [enabled |-> env.PROTECTION_ENABLED,
                            config_source |-> env.CONFIG_SOURCE,
                            s3_config_bucket |-> env.CONFIG_S3_BUCKET,
                            rules |-> DEFAULT_PROTECTION_RULES]
    /\ invocations = 1
    /\ world = NoWorld
    /\ now \in Clocks
    /\ event = NoPayload
    /\ pc = "ec2"
    /\ ri = 1
    /\ summary = EmptySummary
    /\ calls = <<>>
    /\ scanned = {}
    /\ failed = {}
    /\ response = NoResponse
    /\ PERFORMANCE_METRICS = NoMetrics
    /\ notification = NoNotification
    /\ store = NoDocument

\* get_age_days(launch_time) called at the clock of the invocation
Age ==
    \E elapsed \in Elapsed :
        /\ response = NoResponse
        /\ response' = [launch_time |-> now - elapsed,
                        age_days |-> get_age_days(now, now - elapsed)]
        /\ UNCHANGED <<env, MAX_AGE_DAYS, DRY_RUN, PROTECTION_CONFIG, invocations, world,
                       now, event, pc, ri, summary, calls, scanned, failed,
                       PERFORMANCE_METRICS, notification, store>>

SpecAge == InitAge /\ [][Age]_vars

(***************************************************************************)
(* What the claims speak of.                                                *)
(***************************************************************************)
Range(s) == {s[i] : i \in 1..Len(s)}

CandidateKeys == {"ec2_instances", "rds_instances", "ecs_services", "nat_gateways",
                  "load_balancers", "s3_buckets", "elasticsearch_domains"}
CandidateIds(key) == {c.id : c \in Range(summary[key])}
AllCandidateIds == UNION {CandidateIds(k) : k \in CandidateKeys}
CalledIds == {c.id : c \in Range(calls)}
\* the position of the first call of op on id, 0 when there is none
FirstCall(op, id) ==
    IF \E i \in 1..Len(calls) : calls[i].op = op /\ calls[i].id = id
    THEN CHOOSE i \in 1..Len(calls) :
            /\ calls[i].op = op /\ calls[i].id = id
            /\ \A k \in 1..(i - 1) : ~(calls[k].op = op /\ calls[k].id = id)
    ELSE 0

RegionSet == Range(REGIONS)
Listed(kind) == UNION {Range(world.regions[r][kind]) : r \in RegionSet}
ListedServices == UNION {Range(c.services) : c \in Listed("ecs")}

\* every resource of the inventory as the Protection Rule Engine sees it:
\* its rule set, its name, its tags, its type class, and the time since its
\* creation
Descriptors ==
    {[id |-> i.id, rtype |-> "ec2",
      name |-> IF "Name" \in DOMAIN i.tags THEN i.tags["Name"] ELSE Unnamed,
      tags |-> i.tags, itype |-> i.InstanceType, elapsed |-> i.ago] : i \in Listed("ec2")}
    \cup {[id |-> i.id, rtype |-> "rds", name |-> i.name, tags |-> i.tags,
           itype |-> "", elapsed |-> i.ago] : i \in Listed("rds")}
    \cup {[id |-> i.id, rtype |-> "ecs", name |-> i.name, tags |-> NoTags,
           itype |-> "", elapsed |-> i.ago] : i \in ListedServices}
    \cup {[id |-> i.id, rtype |-> "nat_gateway", name |-> <<>>, tags |-> NoTags,
           itype |-> "", elapsed |-> i.ago] : i \in Listed("nat")}
    \cup {[id |-> i.id, rtype |-> "elb", name |-> i.name, tags |-> NoTags,
           itype |-> "", elapsed |-> i.ago] : i \in Listed("elbv2") \cup Listed("elb")}
    \cup {[id |-> i.id, rtype |-> "elasticsearch", name |-> i.name, tags |-> NoTags,
           itype |-> "",
           elapsed |-> IF i.hasCreated THEN i.ago
                       ELSE EsFallbackAgeDays * SecondsPerDay] : i \in Listed("es")}
    \cup {[id |-> i.id, rtype |-> "s3", name |-> i.name, tags |-> NoTags,
           itype |-> "", elapsed |-> i.ago] : i \in Range(world.buckets)}
DescriptorOf(id) == CHOOSE d \in Descriptors : d.id = id

\* the Protection Rule Engine's classification under the loaded rules
EngineProtects(d) ==
    is_resource_protected(PROTECTION_CONFIG, d.rtype, d.name, d.tags, d.itype)

\* the gate as the specification states it
GateOpen(business_hours_only, mode, hour) ==
    /\ (~business_hours_only \/ (hour >= 9 /\ hour < 17))
    /\ (mode # "conservative" \/ hour = 22)

Finished == pc = "idle" /\ "summary" \in DOMAIN response

(***************************************************************************)
(* Claims.                                                                  *)
(***************************************************************************)

\* C1: while the effective dry_run flag is true, the invocation has issued
\* no mutating call, for any provider type, region, inventory and failures.
C1_DryRunIssuesNoCall == DRY_RUN => calls = <<>>

\* C1 witness: a finished dry run in which a call failed and every provider
\* type had an eligible candidate.
C1_Witness ==
    /\ Finished /\ DRY_RUN /\ failed # {}
    /\ \A k \in CandidateKeys : summary[k] # <<>>

\* C2: with protection enabled, no mutating call is issued for a resource
\* that the Protection Rule Engine classifies as protected under the loaded
\* rules, whatever its provider type (a database instance whose tags could
\* not be fetched aside).
C2_NoCallOnProtected ==
    PROTECTION_CONFIG.enabled =>
        \A id \in CalledIds :
            <<"list_tags_for_resource", id>> \notin failed
                => ~EngineProtects(DescriptorOf(id))

\* C3: a resource is a candidate or receives a call only if at least
\* max_age_days whole days have elapsed since its creation; with
\* max_age_days = 3 the resource created 2 days 23 hours ago is neither.
C3_OnlyOldEnough ==
    /\ \A id \in AllCandidateIds \cup CalledIds :
          DescriptorOf(id).elapsed >= MAX_AGE_DAYS * SecondsPerDay
    /\ MAX_AGE_DAYS = 3 => "i-young" \notin AllCandidateIds \cup CalledIds

\* C3 witness: with max_age_days = 3 the instance created 3 days and 1
\* second ago is a candidate and its stop call was issued.
C3_Witness ==
    /\ MAX_AGE_DAYS = 3
    /\ Ec2Old.ago = 3 * SecondsPerDay + 1
    /\ "i-old" \in CandidateIds("ec2_instances")
    /\ FirstCall("stop_instances", "i-old") > 0

\* C4: in a non-dry run, once the bucket scan is over, a candidate bucket
\* whose listing returned 100 objects or more has no delete-objects and no
\* delete-bucket call and has a "not empty" error; one whose listing
\* returned 1 to 99 objects has its delete-objects call before its
\* delete-bucket call.
C4_BucketSafetyBound ==
    (<<"global", "s3">> \in scanned /\ ~DRY_RUN) =>
        \A b \in Range(world.buckets) :
            (b.id \in CandidateIds("s3_buckets")
             /\ <<"list_objects_v2", b.id>> \notin failed) =>
                /\ b.objects >= 100 =>
                      /\ FirstCall("delete_objects", b.id) = 0
                      /\ FirstCall("delete_bucket", b.id) = 0
                      /\ Err("S3", b.id, "not empty") \in Range(summary.errors)
                /\ (b.objects >= 1 /\ b.objects <= 99) =>
                      /\ FirstCall("delete_objects", b.id) > 0
                      /\ FirstCall("delete_bucket", b.id) > FirstCall("delete_objects", b.id)

\* C4 witness: a non-dry bucket scan that refused a bucket of 100 objects
\* and emptied and deleted one of 99.
C4_Witness ==
    /\ <<"global", "s3">> \in scanned /\ ~DRY_RUN
    /\ Err("S3", "b-edge", "not empty") \in Range(summary.errors)
    /\ FirstCall("delete_objects", "b-almost") > 0
    /\ FirstCall("delete_bucket", "b-almost") > FirstCall("delete_objects", "b-almost")


\* the scan units of an invocation
ProviderTypes == {"ec2", "rds", "ecs", "nat", "elb", "es"}
ScanUnits == (RegionSet \X ProviderTypes) \cup {<<"global", "s3">>}
\* the call sites of the inventory fetches and client constructions of a
\* region, and the scan unit of each
FetchUnit ==
    [op \in {"client_ec2", "describe_instances", "client_rds", "describe_db_instances",
             "client_ecs", "list_clusters", "describe_nat_gateways",
             "elbv2_describe_load_balancers", "elb_describe_load_balancers",
             "list_domain_names"} |->
        CASE op \in {"client_ec2", "describe_instances"} -> "ec2"
          [] op \in {"client_rds", "describe_db_instances"} -> "rds"
          [] op \in {"client_ecs", "list_clusters"} -> "ecs"
          [] op = "describe_nat_gateways" -> "nat"
          [] op \in {"elbv2_describe_load_balancers", "elb_describe_load_balancers"} -> "elb"
          [] OTHER -> "es"]
ErrorsNaming(ref) == {i \in 1..Len(summary.errors) : summary.errors[i].ref = ref}
CandidatesOfRegion(region) ==
    {c \in UNION {Range(summary[k]) : k \in CandidateKeys \ {"s3_buckets"}} :
        c.region = region}

\* C5: when the only failure of a finished invocation is the inventory fetch
\* or the client construction of one provider type in region x, the errors
\* list has exactly one entry naming x, every other scan unit was scanned,
\* and the candidates of every other region are in the summary.
C5_FaultIsolation ==
    Finished =>
        \A site \in failed :
            (failed = {site} /\ site[1] \in DOMAIN FetchUnit) =>
                /\ Cardinality(ErrorsNaming(site[2])) = 1
                /\ ScanUnits \ {<<site[2], FetchUnit[site[1]]>>} \subseteq scanned
                /\ \A y \in RegionSet \ {site[2]} : CandidatesOfRegion(y) # {}

\* the call sites of the failures the summary is to report: a mutating
\* call on one resource, a per-cluster or per-domain describe, the inventory
\* fetch of one provider type
ReportedSites ==
    {"stop_instances", "create_tags", "stop_db_instance", "add_tags_to_resource",
     "update_service", "delete_nat_gateway", "elbv2_delete_load_balancer",
     "elb_delete_load_balancer", "delete_domain", "delete_objects", "delete_bucket",
     "list_services", "describe_services", "describe_domain",
     "describe_instances", "describe_db_instances", "list_clusters",
     "describe_nat_gateways", "elbv2_describe_load_balancers",
     "elb_describe_load_balancers", "list_domain_names", "list_buckets"}

\* C6: every failure caught in the invocation (a mutating call, a
\* per-cluster or per-domain describe, the fetch of one provider type) has an
\* entry of the errors list that names its resource or region.
C6_EveryFailureReported ==
    \A site \in failed :
        site[1] \in ReportedSites => ErrorsNaming(site[2]) # {}

\* the position of the handler in the sequence of its scan units
Positions == <<"ec2", "rds", "ecs", "nat", "elb", "es">>
Rank(p, r) ==
    CASE p = "idle" -> Len(REGIONS) * Len(Positions) + 3
      [] p = "finish" -> Len(REGIONS) * Len(Positions) + 2
      [] p = "s3" -> Len(REGIONS) * Len(Positions) + 1
      [] OTHER -> (r - 1) * Len(Positions)
                  + CHOOSE i \in 1..Len(Positions) : Positions[i] = p

C8_AbsentKeyTakesDefault ==
    pc # "idle" =>
        /\ "dry_run" \notin DOMAIN event => DRY_RUN = env.DRY_RUN
        /\ "max_age_days" \notin DOMAIN event => MAX_AGE_DAYS = DefaultMaxAgeDays

\* C9: the scheduling gate returns true exactly when (BUSINESS_HOURS_ONLY is
\* off or the hour is in [9,17)) and (the mode is not conservative or the
\* hour is 22); with BUSINESS_HOURS_ONLY off, the cost_optimized and the
\* aggressive modes return true at every hour.
C9_GateClosedForm ==
    "should_cleanup" \in DOMAIN response =>
        /\ response.should_cleanup
              <=> GateOpen(env.BUSINESS_HOURS_ONLY, env.SCHEDULING_MODE, HourOf(now))
        /\ (~env.BUSINESS_HOURS_ONLY /\ env.SCHEDULING_MODE # "conservative")
              => response.should_cleanup

\* C9 witness: the gate was evaluated at 17:00 with BUSINESS_HOURS_ONLY on
\* in the aggressive mode, and denied.
C9_Witness ==
    /\ "should_cleanup" \in DOMAIN response
    /\ env.BUSINESS_HOURS_ONLY /\ env.SCHEDULING_MODE = "aggressive"
    /\ HourOf(now) = 17
    /\ ~response.should_cleanup

\* C10: an invocation whose scheduling gate denies the window issues no
\* mutating call and scans nothing.
C10_DeniedIssuesNoCall ==
    (invocations > 0
     /\ ~GateOpen(env.BUSINESS_HOURS_ONLY, env.SCHEDULING_MODE, HourOf(now))) =>
        /\ calls = <<>>
        /\ scanned = {}
        /\ pc = "idle"

\* C10 witness: the second invocation of a process that is not in dry-run
\* was denied by the gate and returned the skip message.
C10_Witness ==
    /\ invocations = 2 /\ ~DRY_RUN
    /\ ~GateOpen(env.BUSINESS_HOURS_ONLY, env.SCHEDULING_MODE, HourOf(now))
    /\ "scheduling_mode" \in DOMAIN response
    /\ calls = <<>>


\* C11: when the scheduling gate has denied an invocation, the scan units
\* were still scanned and the response carries the summary.
C11_DeniedStillReportsSummary ==
    (/\ invocations > 0 /\ pc = "idle"
     /\ ~GateOpen(env.BUSINESS_HOURS_ONLY, env.SCHEDULING_MODE, HourOf(now))) =>
        /\ "summary" \in DOMAIN response
        /\ scanned = ScanUnits

\* the estimated monthly cost of a compute instance, by its instance type
Ec2CostOf(id) ==
    get_resource_cost_estimate("ec2", [instance_type |-> DescriptorOf(id).itype])

\* C12: the stop calls on compute instances are issued in descending order
\* of estimated cost: no instance is stopped before a costlier one.
C12_CallsInCostOrder ==
    \A i, j \in 1..Len(calls) :
        (/\ i < j
         /\ calls[i].op = "stop_instances" /\ calls[j].op = "stop_instances") =>
            Ec2CostOf(calls[i].id) >= Ec2CostOf(calls[j].id)

\* the estimated cost of a candidate of a bucket: the estimated_cost the
\* prioritization has written, or else the estimate of its resource type
EstimatedCost(key, e) ==
    IF "estimated_cost" \in DOMAIN e THEN e.estimated_cost
    ELSE CASE key = "ec2_instances" ->
                get_resource_cost_estimate("ec2", [instance_type |-> Get(e, "type")])
           [] key = "rds_instances" ->
                get_resource_cost_estimate("rds", [instance_class |-> Get(e, "class")])
           [] key = "nat_gateways" -> get_resource_cost_estimate("nat_gateway", <<>>)
           [] key = "load_balancers" -> get_resource_cost_estimate("elb", <<>>)
           [] key = "s3_buckets" -> get_resource_cost_estimate("s3", <<>>)
           [] key = "elasticsearch_domains" ->
                get_resource_cost_estimate("elasticsearch", <<>>)
           [] OTHER -> get_resource_cost_estimate("ecs", <<>>)

\* a candidate without the estimated_cost the prioritization adds
Discovered(e) == [k \in DOMAIN e \ {"estimated_cost"} |-> e[k]]
Occurrences(s, x) == Cardinality({i \in 1..Len(s) : s[i] = x})

\* after holds the candidates of before, costliest first, the candidates of
\* one cost in the order they have in before
PrioritizedFrom(key, before, after) ==
    LET found == [i \in 1..Len(after) |-> Discovered(after[i])]
        costs == {EstimatedCost(key, after[i]) : i \in 1..Len(after)}
    IN /\ Len(after) = Len(before)
       /\ \A x \in Range(before) \cup Range(found) :
              Occurrences(found, x) = Occurrences(before, x)
       /\ \A i, j \in 1..Len(after) :
              i < j => EstimatedCost(key, after[i]) >= EstimatedCost(key, after[j])
       /\ \A c \in costs :
              SelectSeq(found, LAMBDA e : EstimatedCost(key, e) = c)
                = SelectSeq(before, LAMBDA e : EstimatedCost(key, e) = c)

\* C13: the step that ends an invocation leaves in every bucket of the
\* summary a permutation of the bucket the scans had filled, in order of
\* non-increasing estimated cost, candidates of equal cost in their discovery
\* order.
C13_StableCostOrder ==
    [][pc = "finish" =>
         \A key \in CandidateKeys : PrioritizedFrom(key, summary[key], summary'[key])]_vars

\* the summary returned has compute candidates of equal cost, and a costlier
\* candidate has moved in front of one discovered before it
C13_Witness ==
    /\ Finished
    /\ \E i, j \in 1..Len(response.summary.ec2_instances) :
         LET a == response.summary.ec2_instances[i]
             b == response.summary.ec2_instances[j]
         IN i < j /\ a.estimated_cost = b.estimated_cost
    /\ \E i \in 1..Len(response.summary.ec2_instances) :
         /\ response.summary.ec2_instances[i].id = "i-1"
         /\ i > 1

\* the estimated costs of the candidates of one bucket of a summary
BucketCosts(s, key) == [i \in 1..Len(s[key]) |-> EstimatedCost(key, s[key][i])]

\* C14: the total_monthly_savings of the cost analysis returned is the sum
\* of the estimated costs of the candidates of every bucket of the summary.
C14_SavingsSumAllCandidates ==
    (Finished /\ "cost_analysis" \in DOMAIN response.summary) =>
        response.summary.cost_analysis.total_monthly_savings
          = SumCosts(BucketCosts(response.summary, "ec2_instances")
                     \o BucketCosts(response.summary, "rds_instances")
                     \o BucketCosts(response.summary, "ecs_services")
                     \o BucketCosts(response.summary, "nat_gateways")
                     \o BucketCosts(response.summary, "load_balancers")
                     \o BucketCosts(response.summary, "s3_buckets")
                     \o BucketCosts(response.summary, "elasticsearch_domains"))

\* what names a candidate in the reports: its id, or its name when the
\* summary keeps no id of it
RefOf(e) == IF "id" \in DOMAIN e THEN e.id ELSE e.name

\* the candidates of a summary estimated at threshold or more
AtOrAbove(s, threshold) ==
    UNION {{RefOf(s[key][i]) : i \in {j \in 1..Len(s[key]) :
                                        EstimatedCost(key, s[key][j]) >= threshold}} :
           key \in CandidateKeys}

\* C15: the high_value_resources of the cost analysis returned are exactly
\* the candidates of the summary, of any provider type, whose estimated cost
\* is at least the configured HIGH_VALUE_THRESHOLD.
C15_HighValueExactlyAtThreshold ==
    (Finished /\ "cost_analysis" \in DOMAIN response.summary) =>
        {h.id : h \in Range(response.summary.cost_analysis.high_value_resources)}
          = AtOrAbove(response.summary, env.HIGH_VALUE_THRESHOLD)

\* the operations that change a resource
MutatingOps == {"stop_instances", "create_tags", "stop_db_instance", "update_service",
                "delete_nat_gateway", "elbv2_delete_load_balancer",
                "elb_delete_load_balancer", "delete_domain", "delete_objects",
                "delete_bucket"}

\* the bucket of the summary a scan unit fills
BucketOf(unit) ==
    CASE unit[2] = "ec2" -> "ec2_instances"
      [] unit[2] = "rds" -> "rds_instances"
      [] unit[2] = "ecs" -> "ecs_services"
      [] unit[2] = "nat" -> "nat_gateways"
      [] unit[2] = "elb" -> "load_balancers"
      [] unit[2] = "es" -> "elasticsearch_domains"
      [] unit[2] = "s3" -> "s3_buckets"

\* the scan of a unit over the inventory of the invocation, with the
\* dry_run flag and the failing call sites given
ScanOf(unit, dry_run, F) ==
    LET ctx == [Ctx EXCEPT !.DRY_RUN = dry_run]
        region == unit[1]
    IN CASE unit[2] = "ec2" ->
              shutdown_old_ec2_instances(world.regions[region].ec2, region, ctx, F)
         [] unit[2] = "rds" ->
              shutdown_old_rds_instances(world.regions[region].rds, region, ctx, F)
         [] unit[2] = "ecs" ->
              shutdown_old_ecs_services(world.regions[region].ecs, region, ctx, F)
         [] unit[2] = "nat" ->
              cleanup_nat_gateways(world.regions[region].nat, region, ctx, F)
         [] unit[2] = "elb" ->
              cleanup_old_load_balancers(world.regions[region].elbv2,
                                         world.regions[region].elb, region, ctx, F)
         [] unit[2] = "es" ->
              cleanup_old_elasticsearch_domains(world.regions[region].es, region, ctx, F)
         [] unit[2] = "s3" -> cleanup_old_s3_buckets(world.buckets, ctx, F)

\* the call sites of the mutating operations a non-dry scan of unit reaches
\* when nothing fails
MutatingSitesOf(unit) ==
    {<<c.op, c.id>> : c \in Range(ScanOf(unit, FALSE, {}).calls)}

\* C16: when a scan has appended its candidates to the summary, the dry
\* scan and every non-dry scan of the same unit over the same inventory,
\* configuration, clock and failing fetches, whatever mutating calls fail in
\* the non-dry one, yield those same candidates.
C16_DryRunSameCandidates ==
    [][\A unit \in scanned' \ scanned :
          LET fetches == {s \in failed' : s[1] \notin MutatingOps}
              appended == ScanOf(unit, TRUE, fetches).cands
          IN /\ summary'[BucketOf(unit)] = summary[BucketOf(unit)] \o appended
             /\ \A G \in SubsetsUpTo(MutatingSitesOf(unit), MaxFailures) :
                   ScanOf(unit, FALSE, fetches \cup G).cands = appended]_vars

\* a non-dry scan has listed a candidate whose mutating call failed
C16_Witness ==
    /\ ~DRY_RUN
    /\ \E i \in 1..Len(calls) :
         /\ ~calls[i].ok
         /\ calls[i].id \in AllCandidateIds

\* the place of a scan unit in the order of the run
UnitRank(unit) ==
    IF unit[2] = "s3" THEN Rank("s3", 0)
    ELSE Rank(unit[2], CHOOSE i \in 1..Len(REGIONS) : REGIONS[i] = unit[1])

\* the region has been processed: its last scan has run, or the handler
\* of the region loop has reported its failure
RegionProcessed(s, done, region) ==
    \/ <<region, "es">> \in done
    \/ \E e \in Range(s.errors) : e.src = "Region" /\ e.ref = region

\* C17: the scans of a run are made in the order compute, database,
\* container, gateway, load balancer, search domain of the first region, then
\* of the next; the bucket scan is made once, when every region has been
\* processed or has failed, and no run that passed the gate ends without it.
C17_FixedScanOrder ==
    /\ [][\A unit \in scanned' \ scanned :
            /\ \A u \in scanned : UnitRank(u) < UnitRank(unit)
            /\ unit[2] # "s3" => unit = <<REGIONS[ri], pc>>
            /\ unit[2] = "s3" =>
                  \A region \in RegionSet : RegionProcessed(summary, scanned, region)]_vars
    /\ [][pc = "s3" => /\ <<"global", "s3">> \notin scanned
                       /\ <<"global", "s3">> \in scanned'
                       /\ pc' = "finish"]_vars
    /\ [](Finished => <<"global", "s3">> \in scanned)

\* a run whose first region failed has finished with the bucket scan made
\* after the scans of the last region
C17_Witness ==
    /\ Finished
    /\ \E e \in Range(response.summary.errors) : e.src = "Region" /\ e.ref = REGIONS[1]
    /\ <<"global", "s3">> \in scanned
    /\ <<REGIONS[Len(REGIONS)], "es">> \in scanned

\* the search domains of the inventory, each with its region
ListedDomains ==
    UNION {{<<region, d>> : d \in Range(world.regions[region].es)} : region \in RegionSet}

\* C18: a search domain whose Processing attribute is true is not among the
\* candidates and has received no call; a search domain without a creation
\* time is a candidate of age 30 days whenever its scan has read it, the
\* scan reporting no failure of its own.
C18_ProcessingSkippedAndFallbackAge ==
    \A rd \in ListedDomains :
        LET region == rd[1]
            d == rd[2]
            read == /\ <<region, "es">> \in scanned
                    /\ <<"list_domain_names", region>> \notin failed
                    /\ <<"describe_domain", d.id>> \notin failed
                    /\ ~is_resource_excluded(d.name, ES_DOMAIN_EXCLUSIONS)
        IN /\ d.Processing =>
                /\ d.id \notin CandidateIds("elasticsearch_domains")
                /\ d.id \notin CalledIds
           /\ (~d.hasCreated /\ ~d.Processing) =>
                /\ \A c \in Range(summary.elasticsearch_domains) :
                       c.id = d.id => c.age_days = EsFallbackAgeDays
                /\ (read /\ MAX_AGE_DAYS <= EsFallbackAgeDays) =>
                       /\ d.id \in CandidateIds("elasticsearch_domains")
                       /\ ~\E e \in Range(summary.errors) :
                              e.src = "ES scan" /\ e.ref = region

\* a non-dry scan has passed over an old domain in transition and has listed
\* the domain without a creation time after it
C18_Witness ==
    /\ ~DRY_RUN
    /\ \E region \in RegionSet :
         /\ <<region, "es">> \in scanned
         /\ \E d \in Range(world.regions[region].es) : d.Processing
    /\ \E c \in Range(summary.elasticsearch_domains) :
         c.age_days = EsFallbackAgeDays /\ c.id \in CalledIds

\* the lists a notification shows: the title of each, the list of the
\* summary it shows, and the number of entries it shows at most
ShownLists ==
    {<<"EC2 Instances", "ec2_instances", 10>>, <<"RDS Instances", "rds_instances", 10>>,
     <<"ECS Services", "ecs_services", 10>>, <<"NAT Gateways", "nat_gateways", 10>>,
     <<"Errors", "errors", 5>>}

Smaller(a, b) == IF a < b THEN a ELSE b

\* the section shows the first entries of list up to limit, in the order of
\* list, and counts the entries left out, if any
ShowsFirst(section, list, limit) ==
    /\ Len(section.lines) = Smaller(Len(list), limit)
    /\ \A i \in 1..Len(section.lines) :
          \A f \in DOMAIN section.lines[i] : section.lines[i][f] = list[i][f]
    /\ (Len(list) > limit) <=> (section.more # <<>>)
    /\ section.more # <<>> => section.more = <<Len(list) - limit>>

\* C19: a finished invocation has handed a notification to the topic exactly
\* when it found candidates and a topic is configured; each list of the
\* message shows the first min(n, 10) entries of its list of the summary (the
\* errors the first min(n, 5)) in the order of the summary, with a line
\* counting the n - limit entries left out exactly when n exceeds the limit;
\* the response is the success response whether or not the publish failed.
C19_NotificationTruncation ==
    Finished =>
        /\ notification.sent <=>
              (response.total_resources > 0 /\ env.SNS_TOPIC_ARN # "")
        /\ notification.sent =>
              /\ \A l \in ShownLists :
                    LET list == response.summary[l[2]]
                        sections == {i \in 1..Len(notification.message.sections) :
                                        notification.message.sections[i].title = l[1]}
                    IN /\ Cardinality(sections) = IF list = <<>> THEN 0 ELSE 1
                       /\ \A i \in sections :
                             ShowsFirst(notification.message.sections[i], list, l[3])
              /\ response.statusCode = 200
              /\ response.total_resources = notification.message.subject.total
              /\ response.summary.errors # <<>> =>
                    notification.message.sections[Len(notification.message.sections)].title
                      = "Errors"

\* the publish of a notification has failed whose compute list and error
\* list are both cut, and whose database list is shown whole
C19_Witness ==
    /\ Finished
    /\ notification.sent /\ ~notification.published
    /\ Len(response.summary.ec2_instances) > 10
    /\ Len(response.summary.errors) > 5
    /\ \E i \in 1..Len(notification.message.sections) :
         /\ notification.message.sections[i].title = "EC2 Instances"
         /\ notification.message.sections[i].more = <<2>>

\* C20: the performance metrics in the summary of a finished invocation
\* come from that invocation alone: every region duration was measured by
\* it, every resource count sums its scans only, and every latency sample
\* averaged was appended by it.
C20_MetricsOfThisInvocationOnly ==
    Finished =>
        LET pm == response.summary.performance_metrics
        IN /\ \A region \in DOMAIN pm.region_times : pm.region_times[region] = invocations
           /\ \A k \in DOMAIN pm.resource_counts : pm.resource_counts[k] \subseteq {invocations}
           /\ pm.average_api_latency_of \subseteq {invocations}

\* the deployment names an external store for its protection rules
StoreConfigured == env.CONFIG_SOURCE = "s3" /\ env.CONFIG_S3_BUCKET # ""

\* C21: every invocation of a deployment configured with an external store
\* loads its rules from the store: either the rules in force are those of
\* the stored object, or the get_object call of this invocation failed and
\* the rules in force are the built-in defaults; a failed load does not
\* fail the invocation, which ends with the 200 response.
C21_EveryInvocationReadsTheStore ==
    (invocations > 0 /\ StoreConfigured) =>
        /\ \/ /\ PROTECTION_CONFIG.config_source = "s3"
              /\ PROTECTION_CONFIG.rules = validate_protection_config(store)
           \/ /\ ConfigSite \in failed
              /\ PROTECTION_CONFIG.rules = DEFAULT_PROTECTION_RULES
        /\ (ConfigSite \in failed /\ pc = "idle") => response.statusCode = 200

\* the lookup-table value of a type class of compute or database instances,
\* the default of the provider type when the table lacks the class
TableCost(key, class) ==
    IF key = "ec2_instances"
    THEN IF class \in DOMAIN Ec2CostMap THEN Ec2CostMap[class] ELSE Ec2DefaultCost
    ELSE IF class \in DOMAIN RdsCostMap THEN RdsCostMap[class] ELSE RdsDefaultCost

\* C22: the estimated cost written on every compute and database candidate
\* of a finished invocation is the lookup-table value of the candidate's own
\* type class, the per-type default only when the table lacks that class; a
\* database candidate of class db.m5.large is costed at the db.m5.large
\* value of the table.
C22_EstimateFromActualTypeClass ==
    Finished =>
        \A key \in {"ec2_instances", "rds_instances"} :
            \A e \in Range(response.summary[key]) :
                "estimated_cost" \in DOMAIN e =>
                    /\ e.estimated_cost = TableCost(key, e.type)
                    /\ (key = "rds_instances" /\ e.type = "db.m5.large") =>
                           e.estimated_cost = RdsCostMap["db.m5.large"]

\* the five checks of the evaluation of resource r under its rules, in the
\* order of the claim: whitelist, blacklist, regex, protected tags, type
ChecksOf(rules, r) ==
    << \E p \in Range(rules.whitelist_patterns) : match_pattern(r.name, p),
       \E p \in Range(rules.blacklist_patterns) : match_pattern(r.name, p),
       \E p \in Range(rules.regex_patterns) : ~ReMalformed(p) /\ ReSearch(p, r.name),
       \E t \in Range(rules.protected_tags) :
           /\ t[1] \in DOMAIN r.tags
           /\ \E v \in Range(t[2]) : Lower(r.tags[t[1]]) = Lower(v),
       r.instance_type \in Range(rules.protected_instance_types) >>
ReasonTexts == <<"Whitelisted by pattern", "Blacklisted by pattern",
                 "Protected by regex pattern", "Protected by tag",
                 "Protected instance type">>

\* C23: a resource evaluated under enabled protection is protected exactly
\* when one of the five checks matches, and the reason is that of the first
\* check that matches in the order whitelist, blacklist, regex, protected
\* tags, protected type list; a name matching both a whitelist and a
\* blacklist pattern is reported as whitelist, the tag reason carries the
\* tag key and value; the scans' yes/no reading of the decision agrees.
C23_FirstMatchingCheckDecides ==
    ("decision" \in DOMAIN response /\ PROTECTION_CONFIG.enabled) =>
        LET r == response.evaluated
            d == response.decision
            checks == ChecksOf(PROTECTION_CONFIG.rules[r.type], r)
            matching == {i \in 1..5 : checks[i]}
        IN /\ d.protected <=> matching # {}
           /\ d.protected =>
                 \E i \in matching :
                     /\ \A k \in matching : i <= k
                     /\ d.reason[1] = ReasonTexts[i]
           /\ (checks[1] /\ checks[2]) => d.reason[1] = "Whitelisted by pattern"
           /\ (d.protected /\ d.reason[1] = "Protected by tag") =>
                 /\ d.reason[2] \in DOMAIN r.tags
                 /\ d.reason[3] = r.tags[d.reason[2]]
           /\ d.protected = is_resource_protected(PROTECTION_CONFIG, r.type, r.name,
                                                  r.tags, r.instance_type)

\* C23 witness: a name that matches a whitelist and a blacklist pattern, on
\* a resource that also carries a protected tag, was evaluated and reported
\* as whitelist by the second whitelist pattern.
C23_Witness ==
    /\ "decision" \in DOMAIN response
    /\ response.evaluated.name = <<"p","r","o","d","-","d","b","1">>
    /\ response.evaluated.tags # NoTags
    /\ FirstMatch(response.evaluated.name,
                  PROTECTION_CONFIG.rules[response.evaluated.type].blacklist_patterns) > 0
    /\ response.decision = Protected(<<"Whitelisted by pattern", ProdStar>>)
    /\ Len(PROTECTION_CONFIG.rules[response.evaluated.type].whitelist_patterns) = 2

\* the whole value equals, ignoring case, the pattern with each '*'
\* replaced by some possibly empty sequence of characters and every other
\* character of the pattern taken literally
RECURSIVE WildcardEquals(_, _)
WildcardEquals(value, pattern) ==
    IF pattern = <<>> THEN value = <<>>
    ELSE IF Head(pattern) = "*"
    THEN \E k \in 0..Len(value) :
            WildcardEquals(SubSeq(value, k + 1, Len(value)), Tail(pattern))
    ELSE /\ value # <<>>
         /\ LowerChar(Head(value)) = LowerChar(Head(pattern))
         /\ WildcardEquals(Tail(value), Tail(pattern))

\* C24: match_pattern(value, pattern), for a value and a pattern that are
\* not empty, returns, and returns true exactly
\* when, for a pattern with a '*', the whole value equals the pattern with
\* each '*' standing for any sequence and every other character literal
\* and, for a pattern without '*', value and pattern are equal ignoring
\* case; 'prod-*' matches 'prod-db1' and not 'dev-prod1'.
C24_WildcardIsLiteralButStar ==
    ("matched" \in DOMAIN response /\ response.value # <<>> /\ response.pattern # <<>>) =>
        /\ ~response.raised
        /\ response.matched <=>
              IF HasStar(response.pattern)
              THEN WildcardEquals(response.value, response.pattern)
              ELSE Lower(response.value) = Lower(response.pattern)
        /\ response.pattern = ProdStar =>
              /\ response.value = <<"p","r","o","d","-","d","b","1">> => response.matched
              /\ response.value = <<"d","e","v","-","p","r","o","d","1">> => ~response.matched

\* the rules in force hold a pattern that does not compile: a regex pattern,
\* or a wildcard pattern whose regular expression does not
MalformedInForce ==
    \E t \in DOMAIN PROTECTION_CONFIG.rules :
        \/ \E p \in Range(PROTECTION_CONFIG.rules[t].regex_patterns) : ReMalformed(p)
        \/ \E p \in Range(PROTECTION_CONFIG.rules[t].whitelist_patterns
                          \o PROTECTION_CONFIG.rules[t].blacklist_patterns) :
               HasStar(p) /\ ReMalformed(WildcardRegex(p))

\* the instances of the listings of a region that the compute and the
\* database scan evaluate: running instances, available databases
EvaluatedIn(region) ==
    {x.id : x \in Range(world.regions[region].ec2)}
    \cup {x.id : x \in {y \in Range(world.regions[region].rds) :
                          y.DBInstanceStatus = "available"}}

\* C25: under rules with a malformed pattern no scan is ended by the error
\* of the pattern: the errors list has no entry for it, and once the
\* compute and the database scan of a region are over, every instance they
\* listed that is old enough and that no well-formed rule protects is a
\* candidate.
C25_MalformedPatternNeverAborts ==
    MalformedInForce =>
        /\ \A i \in 1..Len(summary.errors) : summary.errors[i].msg # "re.error"
        /\ \A region \in Range(REGIONS) :
              ({<<region, "ec2">>, <<region, "rds">>} \subseteq scanned /\ failed = {}) =>
                  \A id \in EvaluatedIn(region) :
                      (/\ DescriptorOf(id).elapsed >= MAX_AGE_DAYS * SecondsPerDay
                       /\ ~EngineProtects(DescriptorOf(id)))
                          => id \in AllCandidateIds

\* the configuration loaded has no entry for the resource type: the rules
\* did not come from the store, or the stored object lacks the type
MissingFromLoaded(resource_type) ==
    PROTECTION_CONFIG.config_source # "s3" \/ resource_type \notin DOMAIN store

\* the built-in default rules protect the resource
DefaultsProtect(d) ==
    is_resource_protected([PROTECTION_CONFIG EXCEPT !.rules = DEFAULT_PROTECTION_RULES],
                          d.rtype, d.name, d.tags, d.itype)

SuppliedProtectedTypes ==
    IF PROTECTION_CONFIG.config_source = "s3" /\ "ec2" \in DOMAIN store
    THEN IF "protected_instance_types" \in DOMAIN store.ec2
         THEN store.ec2.protected_instance_types ELSE <<>>
    ELSE DEFAULT_PROTECTION_RULES.ec2.protected_instance_types

\* C27: with protection enabled, whichever source the rules came from, a
\* compute instance whose type is in the protected type list supplied for
\* compute instances is neither a candidate nor the target of a stop call.
C27_SuppliedTypeListProtects ==
    (pc # "idle" /\ PROTECTION_CONFIG.enabled) =>
        \A id \in CandidateIds("ec2_instances")
                    \cup {c.id : c \in {x \in Range(calls) : x.op = "stop_instances"}} :
            DescriptorOf(id).itype \notin Range(SuppliedProtectedTypes)

\* C28: the age get_age_days computes for a creation time, including one
\* after the clock, is the number of whole days elapsed and is not
\* negative: age_days days fit in the time elapsed, age_days + 1 do not,
\* and age_days >= 0.
C28_AgeIsFloorAndNotNegative ==
    "age_days" \in DOMAIN response =>
        /\ response.age_days * SecondsPerDay <= now - response.launch_time
        /\ now - response.launch_time < (response.age_days + 1) * SecondsPerDay
        /\ response.age_days >= 0

\* C29: a delete-bucket call of a non-dry run is issued only for a bucket
\* whose object listing succeeded and showed fewer than 100 objects and, if
\* it showed any, after a delete-objects call on the bucket that succeeded.
C29_DeleteBucketOnlyAfterEmptying ==
    ~DRY_RUN =>
        \A i \in 1..Len(calls) :
            calls[i].op = "delete_bucket" =>
                LET b == CHOOSE x \in Range(world.buckets) : x.id = calls[i].id
                IN /\ <<"list_objects_v2", b.id>> \notin failed
                   /\ b.objects < S3SmallBucketLimit
                   /\ b.objects > 0 =>
                         \E k \in 1..(i - 1) :
                             calls[k] = Call("delete_objects", b.id, TRUE)

StopOps == {"stop_instances", "stop_db_instance"}
AuditTagOf(op) == IF op = "stop_instances" THEN "create_tags" ELSE "add_tags_to_resource"
StoppedKey(op) == IF op = "stop_instances" THEN "ec2_instances" ELSE "rds_instances"

\* the compute and database instances whose stop call succeeded, per
\* resource list of the summary
StoppedIds(key) ==
    {c.id : c \in {x \in Range(calls) : /\ x.op \in StopOps /\ StoppedKey(x.op) = key
                                        /\ x.ok}}

\* C30: an audit-tag call on a compute or database instance follows a stop
\* call on the same instance that succeeded; an instance whose stop call
\* succeeded has no entry in the errors list, even when its audit-tag call
\* failed.
C30_OutcomeFollowsStopAlone ==
    ~DRY_RUN =>
        /\ \A i \in 1..Len(calls) :
              calls[i].op \in {AuditTagOf(op) : op \in StopOps} =>
                  \E k \in 1..(i - 1) :
                      /\ calls[k].op \in StopOps /\ AuditTagOf(calls[k].op) = calls[i].op
                      /\ calls[k].id = calls[i].id /\ calls[k].ok
        /\ \A key \in {"ec2_instances", "rds_instances"} :
              \A id \in StoppedIds(key) :
                  \A i \in 1..Len(summary.errors) : summary.errors[i].ref # id
====
